---- MODULE Spec2Model ----
(***************************************************************************)
(* A model of github.com/muir/sqltoken (tokenize.go): the goto-driven      *)
(* scanner Tokenize, and the token-sequence transforms Strip, Unstrip,     *)
(* CmdSplitUnstripped, CmdSplit and Join.                                  *)
(*                                                                         *)
(* A string is a sequence of bytes; a byte is written as a one-character   *)
(* string, except the bytes TLA+ cannot write: "BS" is '\b', "VT" is '\v', *)
(* "BQ" is the back quote, "x01" is the control byte 0x01 and "xHH" is the *)
(* non-ASCII byte 0xHH.                                                    *)
(* Go indexes from 0; At(str, k) is Go's str[k].                           *)
(***************************************************************************)
EXTENDS Integers, Sequences, FiniteSets, TLC

VARIABLES
    s,                \* Tokenize's argument s
    config,           \* Tokenize's argument config
    pc,               \* the label the scanner is at
    i,                \* the cursor
    stop,             \* where the current region ends (the next delimiter, or len(s))
    tokenStart,       \* where the token being scanned starts
    tokens,           \* the tokens emitted so far
    firstDollarEnd,   \* backtrack point of Dollar
    runeDelim,        \* closer of a deliminated string (rune form)
    charDelim,        \* closer of a deliminated string (byte form)
    endDelimiterWord, \* backtrack point of a DELIMITER attempt
    delimiterBuffer,  \* the delimiter value being parsed
    delimiter,        \* the delimiter in force ("" is the empty sequence)
    call,             \* the names of the transforms called so far, each on the result
                      \* of the one before it (the first on tokens)
    ret               \* what each of those calls returned

vars == <<s, config, pc, i, stop, tokenStart, tokens, firstDollarEnd, runeDelim,
          charDelim, endDelimiterWord, delimiterBuffer, delimiter, call, ret>>

-----------------------------------------------------------------------------
(* Token types *)

Comment == "Comment"
Whitespace == "Whitespace"
QuestionMark == "QuestionMark"
AtSign == "AtSign"
DollarNumber == "DollarNumber"
ColonWord == "ColonWord"
Literal == "Literal"
Identifier == "Identifier"
AtWord == "AtWord"
Number == "Number"
Delimiter == "Delimiter"
Punctuation == "Punctuation"
Word == "Word"
Other == "Other"
DelimiterStatement == "DelimiterStatement"
Empty == "Empty"

\* Token{Type, Text}: Split is <<>> for nil and <<t>> for a pointer to t;
\* Strip is <<>> for nil and <<ts>> for the slice ts (which may be empty).
Token(t, text) == [Type |-> t, Text |-> text, Split |-> <<>>, Strip |-> <<>>]

-----------------------------------------------------------------------------
(* Config *)

Config0 ==
    [NoticeQuestionMark |-> FALSE, NoticeDollarNumber |-> FALSE,
     NoticeColonWord |-> FALSE, ColonWordIncludesUnicode |-> FALSE,
     NoticeHashComment |-> FALSE, NoticeDollarQuotes |-> FALSE,
     NoticeHexNumbers |-> FALSE, NoticeBinaryNumbers |-> FALSE,
     NoticeUAmpPrefix |-> FALSE, NoticeCharsetLiteral |-> FALSE,
     NoticeNotionalStrings |-> FALSE, NoticeDeliminatedStrings |-> FALSE,
     NoticeTypedNumbers |-> FALSE, NoticeMoneyConstants |-> FALSE,
     NoticeAtWord |-> FALSE, NoticeIdentifiers |-> FALSE,
     SeparatePunctuation |-> FALSE, NoticeDelimiter |-> FALSE]

OracleConfig ==
    [Config0 EXCEPT !.NoticeNotionalStrings = TRUE, !.NoticeDeliminatedStrings = TRUE,
                    !.NoticeTypedNumbers = TRUE, !.NoticeColonWord = TRUE]

SQLServerConfig ==
    [Config0 EXCEPT !.NoticeNotionalStrings = TRUE, !.NoticeHexNumbers = TRUE,
                    !.NoticeMoneyConstants = TRUE, !.NoticeAtWord = TRUE,
                    !.NoticeIdentifiers = TRUE]

MySQLConfig ==
    [Config0 EXCEPT !.NoticeQuestionMark = TRUE, !.NoticeHashComment = TRUE,
                    !.NoticeHexNumbers = TRUE, !.NoticeBinaryNumbers = TRUE,
                    !.NoticeCharsetLiteral = TRUE, !.NoticeDelimiter = TRUE]

PostgreSQLConfig ==
    [Config0 EXCEPT !.NoticeDollarNumber = TRUE, !.NoticeDollarQuotes = TRUE,
                    !.NoticeUAmpPrefix = TRUE]

\* a variant of combineOkay that lets no kind merge
combineNever(c, t) == FALSE

\* a variant of combineOkay that lets Delimiter tokens merge
combineDelimiters(c, t) ==
    IF t \in {Number, QuestionMark, DollarNumber, ColonWord, DelimiterStatement}
    THEN FALSE
    ELSE IF t = Punctuation THEN ~c.SeparatePunctuation
    ELSE TRUE

combineOkay(c, t) ==
    IF t \in {Number, QuestionMark, DollarNumber, ColonWord, Delimiter, DelimiterStatement}
    THEN FALSE
    ELSE IF t = Punctuation THEN ~c.SeparatePunctuation
    ELSE TRUE

-----------------------------------------------------------------------------
(* Bytes, and the byte lists of the scanner's switch statements *)

LowerLetters ==
    {"a", "b", "c", "d", "e", "f", "g", "h", "i", "j", "k", "l", "m",
     "n", "o", "p", "q", "r", "s", "t", "u", "v", "w", "x", "y", "z"}

UpperLetters ==
    {"A", "B", "C", "D", "E", "F", "G", "H", "I", "J", "K", "L", "M",
     "N", "O", "P", "Q", "R", "S", "T", "U", "V", "W", "X", "Y", "Z"}

AsciiLetters == LowerLetters \cup UpperLetters

AsciiDigits == {"0", "1", "2", "3", "4", "5", "6", "7", "8", "9"}

HexDigits == AsciiDigits \cup {"a", "b", "c", "d", "e", "f", "A", "B", "C", "D", "E", "F"}

\* ' ', '\n', '\r', '\t', '\b', '\v', '\f'
SpaceBytes == {" ", "\n", "\r", "\t", "BS", "VT", "\f"}

\* the bytes >= 0x80 of the model
NonAsciiBytes ==
    {"xC3", "xA9", "xD9", "xA3", "xE2", "x8E", "x96", "xC2", "xA0", "xAB",
     "x85", "xCD", "xB8", "xCC", "x81", "xFF"}

At(str, k) == str[k + 1]

\* Go's str[lo:hi]
Slice(str, lo, hi) == SubSeq(str, lo + 1, hi)

\* strings.HasPrefix(str[k:], p)
HasPrefixAt(str, k, p) ==
    /\ k + Len(p) <= Len(str)
    /\ \A j \in 1..Len(p) : str[k + j] = p[j]

\* strings.Index(str[k:], p): the offset from k of the first occurrence, or -1
IndexFrom(str, k, p) ==
    LET hits == {j \in 0..(Len(str) - k) : HasPrefixAt(str, k + j, p)}
    IN  IF hits = {} THEN -1 ELSE CHOOSE j \in hits : \A h \in hits : j <= h

-----------------------------------------------------------------------------
(* unicode/utf8 and unicode, for the runes of the model *)

RuneError == "U+FFFD"

\* the well-formed multi-byte encodings of the model
Utf8Table ==
    {[bytes |-> <<"xC3", "xA9">>, r |-> "U+00E9"],        \* e acute: a letter
     [bytes |-> <<"xD9", "xA3">>, r |-> "U+0663"],        \* arabic-indic three: a digit
     [bytes |-> <<"xE2", "x8E", "x96">>, r |-> "U+2396"], \* decimal separator key: a symbol
     [bytes |-> <<"xC2", "xA0">>, r |-> "U+00A0"],        \* no-break space
     [bytes |-> <<"xC2", "xAB">>, r |-> "U+00AB"],        \* left guillemet: punctuation
     [bytes |-> <<"xC2", "x85">>, r |-> "U+0085"],        \* next line: a control
     [bytes |-> <<"xCC", "x81">>, r |-> "U+0301"],        \* combining acute: a mark
     [bytes |-> <<"xCD", "xB8">>, r |-> "U+0378"]}        \* unassigned

\* utf8.DecodeRuneInString(str[k:]): the rune and its width
DecodeRune(str, k) ==
    IF k >= Len(str) THEN [r |-> RuneError, w |-> 0]
    ELSE IF At(str, k) \notin NonAsciiBytes THEN [r |-> At(str, k), w |-> 1]
    ELSE LET m == {e \in Utf8Table : HasPrefixAt(str, k, e.bytes)}
         IN  IF m = {} THEN [r |-> RuneError, w |-> 1]
             ELSE LET e == CHOOSE e \in m : TRUE IN [r |-> e.r, w |-> Len(e.bytes)]

IsLetter(r) == r \in AsciiLetters \cup {"U+00E9"}

IsDigit(r) == r \in AsciiDigits \cup {"U+0663"}

IsPunct(r) ==
    r \in {"!", "\"", "#", "%", "&", "'", "(", ")", "*", ",", "-", ".", "/", ":", ";",
           "?", "@", "[", "\\", "]", "_", "{", "}", "U+00AB"}

IsSymbol(r) == r \in {"$", "+", "<", "=", ">", "^", "BQ", "|", "~", "U+2396", RuneError}

IsMark(r) == r = "U+0301"

IsSpace(r) == r \in {"\t", "\n", "VT", "\f", "\r", " ", "U+0085", "U+00A0"}

IsControl(r) == r \in {"x01", "BS", "\t", "\n", "VT", "\f", "\r", "U+0085"}

\* strings.EqualFold(str, "delimiter")
ToLower(c) ==
    CASE c = "D" -> "d" [] c = "E" -> "e" [] c = "L" -> "l" [] c = "I" -> "i"
      [] c = "M" -> "m" [] c = "T" -> "t" [] c = "R" -> "r" [] OTHER -> c

EqualFoldDelimiter(str) ==
    /\ Len(str) = 9
    /\ [k \in 1..9 |-> ToLower(str[k])] = <<"d", "e", "l", "i", "m", "i", "t", "e", "r">>

-----------------------------------------------------------------------------
(* The scanner.  A scanner state st is the record of Tokenize's locals; each *)
(* Scan<Label>(st) runs the code at that label up to its next goto.         *)

\* a run-time panic: an index or slice out of range, or panic("empty delmiter")
Panic(st) == [st EXCEPT !.pc = "panic"]

Goto(st, label) == IF st.pc = "panic" THEN st ELSE [st EXCEPT !.pc = label]

SetI(st, k) == [st EXCEPT !.i = k]

\* the closure token(t) with tokenStart = i done before the text is taken
tokenResetFirst(st, t) ==
    LET n == Len(st.tokens) IN
    IF st.pc = "panic" THEN st
    ELSE IF st.i - st.tokenStart = 0 THEN st
    ELSE IF n > 0 /\ st.tokens[n].Type = t /\ combineOkay(st.config, t)
    THEN LET lo == st.i - Len(st.tokens[n].Text) IN
         IF lo < 0 \/ lo > st.i \/ st.i > Len(st.s) THEN Panic(st)
         ELSE [st EXCEPT !.tokens[n].Text = Slice(st.s, lo, st.i), !.tokenStart = st.i]
    ELSE IF st.i > Len(st.s) THEN Panic(st)
         ELSE [st EXCEPT !.tokens = Append(st.tokens, Token(t, Slice(st.s, st.i, st.i))),
                         !.tokenStart = st.i]

\* the closure token(t)
token(st, t) ==
    LET n == Len(st.tokens) IN
    IF st.pc = "panic" THEN st
    ELSE IF st.i - st.tokenStart = 0 THEN st
    ELSE IF n > 0 /\ st.tokens[n].Type = t /\ combineOkay(st.config, t)
    THEN LET lo == st.tokenStart - Len(st.tokens[n].Text) IN
         IF lo < 0 \/ lo > st.i \/ st.i > Len(st.s) THEN Panic(st)
         ELSE [st EXCEPT !.tokens[n].Text = Slice(st.s, lo, st.i), !.tokenStart = st.i]
    ELSE IF st.tokenStart < 0 \/ st.tokenStart > st.i \/ st.i > Len(st.s) THEN Panic(st)
         ELSE [st EXCEPT !.tokens = Append(st.tokens, Token(t, Slice(st.s, st.tokenStart, st.i))),
                         !.tokenStart = st.i]

\* token(t) followed by goto label
Emit(st, t, label) == Goto(token(st, t), label)

\* The state at entry of Tokenize
ScanStart(str, cfg) ==
    [s |-> str, config |-> cfg, pc |-> "Tokenize", i |-> 0, stop |-> 0, tokenStart |-> 0,
     tokens |-> <<>>, firstDollarEnd |-> 0, runeDelim |-> "", charDelim |-> "",
     endDelimiterWord |-> 0, delimiterBuffer |-> <<>>, delimiter |-> <<>>]

\* Tokenize's first lines: the empty input returns at once
ScanTokenize(st) ==
    IF Len(st.s) = 0 THEN Goto(st, "return")
    ELSE Goto([st EXCEPT !.stop = Len(st.s)], "BaseState")

\* the punctuation bytes of BaseState's switch
BasePunctBytes ==
    {"~", "BQ", "!", "%", "^", "&", "*", "(", ")", "+", "=", "{", "}", "[", "]",
     "|", "\\", "<", ">", ","}

\* BaseState's default case: the byte at i-1 starts a rune the switch does not list
BaseStateRune(st) ==
    LET d == DecodeRune(st.s, st.i - 1)
        n == SetI(st, st.i + d.w - 1)
    IN  IF d.r = "U+2396" THEN Goto(n, "NumberNoDot")
        ELSE IF IsDigit(d.r) THEN Goto(n, "Number")
        ELSE IF IsPunct(d.r) \/ IsSymbol(d.r) \/ IsMark(d.r) THEN Goto(token(n, Punctuation), "BaseState")
        ELSE IF IsLetter(d.r) THEN Goto(n, "Word")
        ELSE IF IsControl(d.r) \/ IsSpace(d.r) THEN Goto(n, "Whitespace")
        ELSE Goto(token(n, Other), "BaseState")

\* one iteration of BaseState's loop, i < stop: c := s[i]; i++; switch c.
\* pc stays "BaseState" when the loop goes on.
BaseStateByte(st) ==
    LET c == At(st.s, st.i)
        n == SetI(st, st.i + 1)
        k == st.i + 1
        str == st.s
        cfg == st.config
    IN  CASE c = "/" ->
               IF k < Len(str) /\ At(str, k) = "*" THEN Goto(n, "CStyleComment")
               ELSE token(n, Punctuation)
          [] c = "'" -> Goto(n, "SingleQuoteString")
          [] c = "\"" -> Goto(n, "DoubleQuoteString")
          [] c = "-" ->
               IF k < st.stop /\ At(str, k) = "-" THEN Goto(n, "SkipToEOL")
               ELSE token(n, Punctuation)
          [] c = "#" ->
               IF cfg.NoticeHashComment THEN Goto(n, "SkipToEOL")
               ELSE IF cfg.NoticeIdentifiers THEN Goto(n, "Identifier")
               ELSE token(n, Punctuation)
          [] c = "@" ->
               IF cfg.NoticeAtWord THEN Goto(n, "AtWordStart")
               ELSE IF cfg.NoticeIdentifiers THEN Goto(n, "Identifier")
               ELSE token(n, Punctuation)
          [] c = ";" ->
               IF cfg.NoticeDelimiter /\ st.delimiter # <<>> THEN token(n, Punctuation)
               ELSE token(n, Delimiter)
          [] c = "?" ->
               IF cfg.NoticeQuestionMark THEN token(n, QuestionMark)
               ELSE token(n, Punctuation)
          [] c \in SpaceBytes -> Goto(n, "Whitespace")
          [] c = "." -> Goto(n, "PossibleNumber")
          [] c = ":" ->
               IF cfg.NoticeColonWord THEN Goto(n, "ColonWordStart")
               ELSE token(n, Punctuation)
          [] c \in BasePunctBytes -> token(n, Punctuation)
          [] c = "$" ->
               IF cfg.NoticeDollarQuotes \/ cfg.NoticeDollarNumber THEN Goto(n, "Dollar")
               ELSE token(n, Punctuation)
          [] c = "U" ->
               IF cfg.NoticeUAmpPrefix /\ k + 1 < st.stop /\ At(str, k) = "&" /\ At(str, k + 1) = "'"
               THEN Goto(SetI(st, k + 2), "SingleQuoteString")
               ELSE Goto(n, "Word")
          [] c \in {"x", "X"} ->
               IF cfg.NoticeHexNumbers /\ k < st.stop /\ At(str, k) = "'"
               THEN Goto(SetI(st, k + 1), "QuotedHexNumber")
               ELSE Goto(n, "Word")
          [] c \in {"b", "B"} ->
               IF cfg.NoticeBinaryNumbers /\ k < st.stop /\ At(str, k) = "'"
               THEN Goto(SetI(st, k + 1), "QuotedBinaryNumber")
               ELSE Goto(n, "Word")
          [] c \in {"n", "N"} ->
               IF cfg.NoticeNotionalStrings /\ k < st.stop - 1
               THEN IF At(str, k) \in {"q", "Q"}
                         /\ cfg.NoticeDeliminatedStrings /\ k < st.stop - 2 /\ At(str, k + 1) = "'"
                    THEN Goto(SetI(st, k + 2), "DeliminatedString")
                    ELSE IF At(str, k) = "'" THEN Goto(SetI(st, k + 1), "SingleQuoteString")
                    ELSE Goto(n, "Word")
               ELSE Goto(n, "Word")
          [] c \in {"q", "Q"} ->
               IF cfg.NoticeDeliminatedStrings /\ k < st.stop /\ At(str, k) = "'"
               THEN Goto(SetI(st, k + 1), "DeliminatedString")
               ELSE Goto(n, "Word")
          [] c \in AsciiLetters \cup {"_"} -> Goto(n, "Word")
          [] c = "0" ->
               IF cfg.NoticeHexNumbers /\ k < st.stop /\ At(str, k) = "x"
               THEN Goto(SetI(st, k + 1), "HexNumber")
               ELSE IF cfg.NoticeBinaryNumbers /\ k < st.stop /\ At(str, k) = "b"
               THEN Goto(SetI(st, k + 1), "BinaryNumber")
               ELSE Goto(n, "Number")
          [] c \in AsciiDigits -> Goto(n, "Number")
          [] OTHER -> BaseStateRune(n)

RECURSIVE ScanBaseState(_)
ScanBaseState(st) ==
    IF st.i < st.stop
    THEN LET n == BaseStateByte(st) IN
         IF n.pc = "BaseState" THEN ScanBaseState(n) ELSE n
    ELSE Goto(st, "Done")

RECURSIVE ScanCStyleComment(_)
ScanCStyleComment(st) ==
    IF st.i < st.stop
    THEN LET c == At(st.s, st.i)
             k == st.i + 1
         IN  IF c = "*" /\ k < st.stop /\ At(st.s, k) = "/"
             THEN Emit(SetI(st, k + 1), Comment, "BaseState")
             ELSE ScanCStyleComment(SetI(st, k))
    ELSE Emit(st, Comment, "Done")

\* a variant of the quoted string loops in which a backslash takes no byte
RECURSIVE ScanQuoteStringPlain(_, _)
ScanQuoteStringPlain(st, quote) ==
    IF st.i < st.stop
    THEN IF At(st.s, st.i) = quote THEN Emit(SetI(st, st.i + 1), Literal, "BaseState")
         ELSE ScanQuoteStringPlain(SetI(st, st.i + 1), quote)
    ELSE Emit(st, Literal, "Done")

\* SingleQuoteString and DoubleQuoteString differ in the closing quote only
RECURSIVE ScanQuoteString(_, _)
ScanQuoteString(st, quote) ==
    IF st.i < st.stop
    THEN LET c == At(st.s, st.i)
             k == st.i + 1
         IN  IF c = quote THEN Emit(SetI(st, k), Literal, "BaseState")
             ELSE IF c = "\\"
             THEN IF k < st.stop THEN ScanQuoteString(SetI(st, k + 1), quote)
                  ELSE Emit(SetI(st, k), Literal, "Done")
             ELSE ScanQuoteString(SetI(st, k), quote)
    ELSE Emit(st, Literal, "Done")

ScanSingleQuoteString(st) == ScanQuoteString(st, "'")

ScanDoubleQuoteString(st) == ScanQuoteString(st, "\"")

RECURSIVE ScanSkipToEOL(_)
ScanSkipToEOL(st) ==
    IF st.i < st.stop
    THEN IF At(st.s, st.i) = "\n" THEN Emit(SetI(st, st.i + 1), Comment, "BaseState")
         ELSE ScanSkipToEOL(SetI(st, st.i + 1))
    ELSE Emit(st, Comment, "Done")

\* the bytes that end a Word without decoding a rune
WordEndBytes ==
    {"\n", "\r", "BS", "VT", "\f", "!", "\"", "%", "&", "(", ")", "*", "+", "-", ".", "/",
     ":", ";", "<", "=", ">", "?", "[", "\\", "]", "^", "BQ", "{", "|", "}", "~"}

\* the tail of Word's loop body: decode the rune at i
WordRune(st) ==
    LET d == DecodeRune(st.s, st.i) IN
    IF IsLetter(d.r) \/ IsDigit(d.r) THEN SetI(st, st.i + d.w)
    ELSE Emit(st, Word, "BaseState")

\* the switch of Word without the test that the word starts a line
WordByteAnywhere(st) ==
    LET c == At(st.s, st.i) IN
    CASE c \in AsciiLetters \cup AsciiDigits \cup {"_"} -> SetI(st, st.i + 1)
      [] c \in {"#", "@", "$"} ->
           IF st.config.NoticeIdentifiers THEN Goto(st, "Identifier")
           ELSE Emit(st, Word, "BaseState")
      [] c \in {" ", "\t"} ->
           IF /\ st.config.NoticeDelimiter
              /\ EqualFoldDelimiter(Slice(st.s, st.tokenStart, st.i))
           THEN Goto(st, "DelimiterStatementStart")
           ELSE Emit(st, Word, "BaseState")
      [] c \in WordEndBytes -> Emit(st, Word, "BaseState")
      [] c = "'" ->
           IF st.config.NoticeCharsetLiteral
           THEN IF At(st.s, st.tokenStart) \in {"n", "N"}
                THEN IF st.i - st.tokenStart = 1
                     THEN Goto(SetI(st, st.i + 1), "SingleQuoteString")
                     ELSE WordRune(st)
                ELSE IF At(st.s, st.tokenStart) = "_"
                THEN Goto(SetI(st, st.i + 1), "SingleQuoteString")
                ELSE WordRune(st)
           ELSE WordRune(st)
      [] OTHER -> WordRune(st)

\* one iteration of Word's loop, i < stop; pc stays "Word" when the loop goes on
WordByte(st) ==
    LET c == At(st.s, st.i) IN
    CASE c \in AsciiLetters \cup AsciiDigits \cup {"_"} -> SetI(st, st.i + 1)
      [] c \in {"#", "@", "$"} ->
           IF st.config.NoticeIdentifiers THEN Goto(st, "Identifier")
           ELSE Emit(st, Word, "BaseState")
      [] c \in {" ", "\t"} ->
           IF /\ st.config.NoticeDelimiter
              /\ EqualFoldDelimiter(Slice(st.s, st.tokenStart, st.i))
              /\ (st.tokenStart = 0 \/ At(st.s, st.tokenStart - 1) = "\n")
           THEN Goto(st, "DelimiterStatementStart")
           ELSE Emit(st, Word, "BaseState")
      [] c \in WordEndBytes -> Emit(st, Word, "BaseState")
      [] c = "'" ->
           IF st.config.NoticeCharsetLiteral
           THEN IF At(st.s, st.tokenStart) \in {"n", "N"}
                THEN IF st.i - st.tokenStart = 1
                     THEN Goto(SetI(st, st.i + 1), "SingleQuoteString")
                     ELSE WordRune(st)
                ELSE IF At(st.s, st.tokenStart) = "_"
                THEN Goto(SetI(st, st.i + 1), "SingleQuoteString")
                ELSE WordRune(st)
           ELSE WordRune(st)
      [] OTHER -> WordRune(st)

RECURSIVE ScanWord(_)
ScanWord(st) ==
    IF st.i < st.stop
    THEN LET n == WordByte(st) IN
         IF n.pc = "Word" THEN ScanWord(n) ELSE n
    ELSE Emit(st, Word, "Done")

-----------------------------------------------------------------------------
(* The DELIMITER directive *)

\* ' ', '\t', '\r', '\b', '\v', '\f'
DelimiterBlankBytes == {" ", "\t", "\r", "BS", "VT", "\f"}

\* the loop of DelimiterStatementStart
RECURSIVE DelimiterStatementStartLoop(_)
DelimiterStatementStartLoop(st) ==
    IF st.i < st.stop
    THEN LET c == At(st.s, st.i) IN
         CASE c \in DelimiterBlankBytes -> DelimiterStatementStartLoop(SetI(st, st.i + 1))
           [] c = "\n" -> Goto(st, "NotDelimiter")
           [] c = "'" -> Goto(SetI(st, st.i + 1), "DelimiterSingleQuote")
           [] c = "\"" -> Goto(SetI(st, st.i + 1), "DelimiterDoubleQuote")
           [] OTHER -> Goto(st, "DelimiterUnquoted")
    ELSE Goto(st, "NotDelimiter")

ScanDelimiterStatementStart(st) ==
    DelimiterStatementStartLoop([st EXCEPT !.endDelimiterWord = st.i, !.delimiterBuffer = <<>>])

\* NotDelimiter without i = endDelimiterWord
ScanNotDelimiterNoBacktrack(st) == Emit(st, Word, "BaseState")

ScanNotDelimiter(st) == Emit(SetI(st, st.endDelimiterWord), Word, "BaseState")

\* when its loop ends at stop, DelimiterContinues falls into DelimiterSingleQuote
RECURSIVE ScanDelimiterContinues(_)
ScanDelimiterContinues(st) ==
    IF st.i < st.stop
    THEN LET c == At(st.s, st.i) IN
         CASE c \in DelimiterBlankBytes -> ScanDelimiterContinues(SetI(st, st.i + 1))
           [] c = "\n" -> Goto(SetI(st, st.i + 1), "DelimiterFound")
           [] c = "'" -> Goto(SetI(st, st.i + 1), "DelimiterSingleQuote")
           [] c = "\"" -> Goto(SetI(st, st.i + 1), "DelimiterDoubleQuote")
           [] OTHER -> Goto(st, "DelimiterIgnoring")
    ELSE Goto(st, "DelimiterSingleQuote")

\* DelimiterSingleQuote and DelimiterDoubleQuote differ in the quote only;
\* delimiterStart is the block's local.
RECURSIVE DelimiterQuoteLoop(_, _, _)
DelimiterQuoteLoop(st, quote, delimiterStart) ==
    IF st.i < st.stop
    THEN LET c == At(st.s, st.i)
             buf == st.delimiterBuffer \o Slice(st.s, delimiterStart, st.i)
         IN  CASE c \in {"\\", "\n"} -> Goto(st, "NotDelimiter")
               [] c = quote ->
                    IF st.i + 1 < st.stop /\ At(st.s, st.i + 1) = quote
                    THEN DelimiterQuoteLoop(
                             [st EXCEPT !.delimiterBuffer =
                                            st.delimiterBuffer \o Slice(st.s, delimiterStart, st.i + 1),
                                        !.i = st.i + 2],
                             quote, st.i + 2)
                    ELSE IF st.i + 1 < st.stop /\ At(st.s, st.i + 1) \in {" ", "\t", "BS"}
                    THEN Goto([st EXCEPT !.delimiterBuffer = buf, !.i = st.i + 1], "DelimiterContinues")
                    ELSE IF st.i + 1 < st.stop /\ At(st.s, st.i + 1) = "\n"
                    THEN Goto([st EXCEPT !.delimiterBuffer = buf, !.i = st.i + 2], "DelimiterFound")
                    ELSE Goto([st EXCEPT !.delimiterBuffer = buf, !.i = st.i + 1], "DelimiterContinues")
               [] OTHER -> DelimiterQuoteLoop(SetI(st, st.i + 1), quote, delimiterStart)
    ELSE Goto(st, "NotDelimiter")

ScanDelimiterSingleQuote(st) == DelimiterQuoteLoop(st, "'", st.i)

ScanDelimiterDoubleQuote(st) == DelimiterQuoteLoop(st, "\"", st.i)

RECURSIVE DelimiterUnquotedLoop(_, _)
DelimiterUnquotedLoop(st, delimiterStart) ==
    IF st.i < st.stop
    THEN LET c == At(st.s, st.i)
             buf == Slice(st.s, delimiterStart, st.i)
         IN  CASE c = "\\" -> Goto(st, "NotDelimiter")
               [] c = "\n" ->
                    Goto([st EXCEPT !.delimiterBuffer = buf, !.i = st.i + 1], "DelimiterFound")
               [] c \in {" ", "\t", "BS", "\r"} ->
                    Goto([st EXCEPT !.delimiterBuffer = buf, !.i = st.i + 1], "DelimiterIgnoring")
               [] OTHER -> DelimiterUnquotedLoop(SetI(st, st.i + 1), delimiterStart)
    ELSE Goto(st, "NotDelimiter")

ScanDelimiterUnquoted(st) == DelimiterUnquotedLoop(st, st.i)

RECURSIVE ScanDelimiterIgnoring(_)
ScanDelimiterIgnoring(st) ==
    IF st.i < st.stop
    THEN IF At(st.s, st.i) = "\n" THEN Goto(SetI(st, st.i + 1), "DelimiterFound")
         ELSE ScanDelimiterIgnoring(SetI(st, st.i + 1))
    ELSE Goto(st, "NotDelimiter")

\* a variant of DelimiterFound that leaves the delimiter as it was
ScanDelimiterFoundKeep(st) == Emit(st, DelimiterStatement, "DelimiterSearchStart")

\* DelimiterFound falls into DelimiterSearchStart
ScanDelimiterFound(st) ==
    Emit([st EXCEPT !.delimiter = st.delimiterBuffer], DelimiterStatement, "DelimiterSearchStart")

-----------------------------------------------------------------------------
(* DelimiterSearchStart: the forward search for the delimiter.  The helpers *)
(* return the cursor after the construct they skip, -1 for an index out of  *)
(* range.  end is len(s) - len(delimiter).                                  *)

\* the loop labelled EQuotedString
RECURSIVE SkipEQuotedString(_, _, _)
SkipEQuotedString(str, k, end) ==
    IF k < end
    THEN LET c == At(str, k) IN
         IF c = "\\"
         THEN IF k + 2 < Len(str) THEN SkipEQuotedString(str, k + 2, end) ELSE k + 1
         ELSE IF c = "'" THEN k + 1
         ELSE SkipEQuotedString(str, k + 1, end)
    ELSE k

\* the loops labelled SingleQuotedString and DoubleQuotedString
RECURSIVE SkipDoubledQuoteString(_, _, _, _)
SkipDoubledQuoteString(str, k, end, quote) ==
    IF k < end
    THEN IF At(str, k) = quote
         THEN IF k + 1 >= Len(str) THEN -1
              ELSE IF At(str, k + 1) = quote
              THEN SkipDoubledQuoteString(str, k + 2, end, quote)
              ELSE k + 1
         ELSE SkipDoubledQuoteString(str, k + 1, end, quote)
    ELSE k

\* for ; i+1 < len(s); i++ { if s[i] == '*' && s[i+1] == '/' { i++; break } }
RECURSIVE SkipCComment(_, _)
SkipCComment(str, k) ==
    IF k + 1 < Len(str)
    THEN IF At(str, k) = "*" /\ At(str, k + 1) = "/" THEN k + 1
         ELSE SkipCComment(str, k + 1)
    ELSE k

\* for ; i < len(s); i++ { if s[i] == '\n' { break } }
RECURSIVE SkipLineComment(_, _)
SkipLineComment(str, k) ==
    IF k < Len(str)
    THEN IF At(str, k) = "\n" THEN k ELSE SkipLineComment(str, k + 1)
    ELSE k

\* the switch of the search loop, after c := s[i]; i++ (k is the cursor after i++)
SearchSkip(str, c, k, end) ==
    CASE c \in {"E", "e"} ->
           IF k < Len(str) /\ At(str, k) = "'" THEN SkipEQuotedString(str, k + 1, end) ELSE k
      [] c = "'" -> SkipDoubledQuoteString(str, k, end, "'")
      [] c = "\"" -> SkipDoubledQuoteString(str, k, end, "\"")
      [] c = "/" ->
           IF k < Len(str) /\ At(str, k) = "*" THEN SkipCComment(str, k + 1) ELSE k
      [] c = "-" ->
           IF k < Len(str) /\ At(str, k) = "-" THEN SkipLineComment(str, k + 1) ELSE k
      [] OTHER -> k

\* the search loop: the offset of the next delimiter, len(s) when there is none,
\* -1 for an index out of range
RECURSIVE DelimiterSearch(_, _, _)
DelimiterSearch(str, d, k) ==
    LET end == Len(str) - Len(d) IN
    IF k < 0 THEN -1
    ELSE IF k < end
    THEN IF HasPrefixAt(str, k, d) THEN k
         ELSE DelimiterSearch(str, d, SearchSkip(str, At(str, k), k + 1, end))
    ELSE Len(str)

\* a variant of DelimiterSearchStart without its test for the empty delimiter:
\* the empty delimiter is found at once, at the cursor
ScanDelimiterSearchStartUnguarded(st) ==
    LET found == DelimiterSearch(st.s, st.delimiter, st.i) IN
    IF found < 0 THEN Panic(st)
    ELSE Goto([st EXCEPT !.stop = found], "BaseState")

ScanDelimiterSearchStart(st) ==
    IF st.delimiter = <<>> THEN Goto([st EXCEPT !.stop = Len(st.s)], "BaseState")
    ELSE LET found == DelimiterSearch(st.s, st.delimiter, st.i) IN
         IF found < 0 THEN Panic(st)
         ELSE Goto([st EXCEPT !.stop = found], "BaseState")

\* a variant of Done that takes one byte more than the delimiter into the token
ScanDoneLong(st) ==
    IF st.stop < Len(st.s)
    THEN IF st.delimiter = <<>> THEN Panic(st)
         ELSE IF /\ st.i + Len(st.delimiter) < Len(st.s)
                 /\ Slice(st.s, st.i, st.i + Len(st.delimiter)) = st.delimiter
         THEN Emit(SetI(st, st.i + Len(st.delimiter) + 1), Delimiter, "DelimiterSearchStart")
         ELSE Goto(st, "return")
    ELSE Goto(st, "return")

ScanDone(st) ==
    IF st.stop < Len(st.s)
    THEN IF st.delimiter = <<>> THEN Panic(st)
         ELSE IF /\ st.i + Len(st.delimiter) < Len(st.s)
                 /\ Slice(st.s, st.i, st.i + Len(st.delimiter)) = st.delimiter
         THEN Emit(SetI(st, st.i + Len(st.delimiter)), Delimiter, "DelimiterSearchStart")
         ELSE Goto(st, "return")
    ELSE Goto(st, "return")

-----------------------------------------------------------------------------
(* Colon words, identifiers, at-words *)

\* a loop whose body ran without changing the state: it repeats forever
Hang(st) == [st EXCEPT !.pc = "hang"]

\* the punctuation bytes the switches list "to avoid DecodeRuneInString", less '.' and ':'
EndPunctBytes ==
    {"!", "\"", "#", "$", "%", "&", "'", "(", ")", "*", "+", "-", "/",
     ";", "<", "=", ">", "?", "@", "[", "\\", "]", "^", "_", "BQ", "{", "|", "}", "~"}

ScanColonWordStart(st) ==
    IF st.i < st.stop
    THEN LET c == At(st.s, st.i) IN
         CASE c = ":" ->
                LET RECURSIVE Colons(_)
                    Colons(k) == IF k < st.stop /\ At(st.s, k) = ":" THEN Colons(k + 1) ELSE k
                IN  Emit(SetI(st, Colons(st.i + 1)), Punctuation, "BaseState")
           [] c \in AsciiLetters -> Goto(SetI(st, st.i + 1), "ColonWord")
           [] c \in SpaceBytes \cup EndPunctBytes \cup {"."} \cup AsciiDigits ->
                Emit(st, Punctuation, "BaseState")
           [] OTHER ->
                LET d == DecodeRune(st.s, st.i) IN
                IF st.config.ColonWordIncludesUnicode /\ IsLetter(d.r)
                THEN Goto(SetI(st, st.i + d.w), "ColonWord")
                ELSE Emit(st, Punctuation, "BaseState")
    ELSE Emit(st, Punctuation, "Done")

\* one iteration of ColonWord's loop, i < stop; pc stays "ColonWord" when the loop
\* goes on.  The case '.' has no statement after its if: without
\* ColonWordIncludesUnicode the switch ends and the loop repeats with i unchanged.
ColonWordByte(st) ==
    LET c == At(st.s, st.i) IN
    CASE c \in AsciiLetters \cup AsciiDigits \cup {"_"} -> SetI(st, st.i + 1)
      [] c = "." -> IF st.config.ColonWordIncludesUnicode THEN SetI(st, st.i + 1) ELSE st
      [] c \in SpaceBytes \cup (EndPunctBytes \ {"_"}) \cup {":"} -> Emit(st, ColonWord, "BaseState")
      [] OTHER ->
           LET d == DecodeRune(st.s, st.i) IN
           IF st.config.ColonWordIncludesUnicode /\ (IsLetter(d.r) \/ IsDigit(d.r))
           THEN SetI(st, st.i + d.w)
           ELSE Emit(st, ColonWord, "BaseState")

RECURSIVE ScanColonWord(_)
ScanColonWord(st) ==
    IF st.i < st.stop
    THEN LET n == ColonWordByte(st) IN
         IF n = st THEN Hang(st)
         ELSE IF n.pc = "ColonWord" THEN ScanColonWord(n)
         ELSE n
    ELSE Emit(st, ColonWord, "Done")

\* the end of Identifier: a lone # @ $ or _ is Punctuation
IdentifierEnd(st, label) ==
    IF st.i - st.tokenStart = 1 THEN Emit(st, Punctuation, label)
    ELSE Emit(st, Identifier, label)

RECURSIVE ScanIdentifier(_)
ScanIdentifier(st) ==
    IF st.i < st.stop
    THEN IF At(st.s, st.i) \in AsciiLetters \cup AsciiDigits \cup {"#", "@", "$", "_"}
         THEN ScanIdentifier(SetI(st, st.i + 1))
         ELSE IdentifierEnd(st, "BaseState")
    ELSE IdentifierEnd(st, "Done")

\* AtWordStart going to Identifier without the test of NoticeIdentifiers
ScanAtWordStartUnflagged(st) ==
    IF st.i < st.stop
    THEN IF At(st.s, st.i) \in AsciiLetters THEN Goto(SetI(st, st.i + 1), "AtWord")
         ELSE Goto(st, "Identifier")
    ELSE Emit(st, Punctuation, "Done")

ScanAtWordStart(st) ==
    IF st.i < st.stop
    THEN IF At(st.s, st.i) \in AsciiLetters THEN Goto(SetI(st, st.i + 1), "AtWord")
         ELSE IF st.config.NoticeIdentifiers THEN Goto(st, "Identifier")
         ELSE Emit(st, Punctuation, "BaseState")
    ELSE Emit(st, Punctuation, "Done")

RECURSIVE ScanAtWord(_)
ScanAtWord(st) ==
    IF st.i < st.stop
    THEN LET c == At(st.s, st.i) IN
         CASE c \in AsciiLetters \cup AsciiDigits -> ScanAtWord(SetI(st, st.i + 1))
           [] c \in {"#", "@", "$", "_"} ->
                IF st.config.NoticeIdentifiers THEN Goto(st, "Identifier")
                ELSE Emit(st, AtWord, "BaseState")
           [] OTHER -> Emit(st, AtWord, "BaseState")
    ELSE Emit(st, AtWord, "Done")

-----------------------------------------------------------------------------
(* Numbers *)

ScanPossibleNumber(st) ==
    IF st.i < st.stop
    THEN LET c == At(st.s, st.i) IN
         CASE c \in AsciiDigits -> Goto(SetI(st, st.i + 1), "NumberNoDot")
           [] c \in AsciiLetters \cup SpaceBytes \cup EndPunctBytes \cup {".", ":"} ->
                Emit(st, Punctuation, "BaseState")
           [] OTHER ->
                \* i += w comes before the test: a rune that is no digit joins the token
                LET d == DecodeRune(st.s, st.i)
                    n == SetI(st, st.i + d.w)
                IN  IF IsDigit(d.r) THEN Goto(n, "NumberNoDot")
                    ELSE Emit(n, Punctuation, "BaseState")
    ELSE Emit(st, Punctuation, "Done")

\* case 'd', 'D', 'f', 'F' of the number states; k is the cursor after i++
TypedNumberEnd(st, k) ==
    Emit(SetI(st, IF st.config.NoticeTypedNumbers THEN k ELSE k - 1), Number, "BaseState")

\* i--; token(Number); goto label
NumberEnd(st, k, label) == Emit(SetI(st, k - 1), Number, label)

\* one iteration of Number's loop, i < stop; pc stays "Number" when the loop goes on
NumberByte(st) ==
    LET c == At(st.s, st.i)
        k == st.i + 1
    IN  CASE c \in AsciiDigits -> SetI(st, k)
          [] c = "." -> Goto(SetI(st, k), "NumberNoDot")
          [] c \in {"e", "E"} ->
               IF k < st.stop /\ At(st.s, k) \in AsciiDigits THEN Goto(SetI(st, k + 1), "Exponent")
               ELSE IF /\ k < st.stop
                       /\ At(st.s, k) \notin AsciiLetters \cup SpaceBytes \cup EndPunctBytes \cup {".", ":"}
                       /\ IsDigit(DecodeRune(st.s, k).r)
               THEN Goto(SetI(st, k + DecodeRune(st.s, k).w), "Exponent")
               ELSE NumberEnd(st, k, "Word")
          [] c \in {"d", "D", "f", "F"} -> TypedNumberEnd(st, k)
          [] c \in AsciiLetters \cup SpaceBytes \cup EndPunctBytes \cup {":"} ->
               NumberEnd(st, k, "BaseState")
          [] OTHER ->
               LET d == DecodeRune(st.s, k - 1) IN
               IF d.r = "U+2396" THEN Goto(SetI(st, k + d.w - 1), "NumberNoDot")
               ELSE IF ~IsDigit(d.r) THEN NumberEnd(st, k, "BaseState")
               ELSE SetI(st, k + d.w - 1)

RECURSIVE ScanNumber(_)
ScanNumber(st) ==
    IF st.i < st.stop
    THEN LET n == NumberByte(st) IN
         IF n.pc = "Number" THEN ScanNumber(n) ELSE n
    ELSE Emit(st, Number, "Done")

\* a variant of NumberNoDotByte that takes every exponent marker into the number
NumberNoDotByteKeep(st) ==
    LET c == At(st.s, st.i)
        k == st.i + 1
    IN  IF c \in AsciiDigits THEN SetI(st, k)
        ELSE IF c \in {"e", "E"} THEN Goto(SetI(st, k), "Exponent")
        ELSE NumberEnd(st, k, "BaseState")

\* one iteration of NumberNoDot's loop
NumberNoDotByte(st) ==
    LET c == At(st.s, st.i)
        k == st.i + 1
    IN  CASE c \in AsciiDigits -> SetI(st, k)
          [] c \in {"e", "E"} ->
               IF k < st.stop /\ At(st.s, k) \in AsciiDigits THEN Goto(SetI(st, k + 1), "Exponent")
               ELSE NumberEnd(st, k, "Word")
          [] c \in {"d", "D", "f", "F"} -> TypedNumberEnd(st, k)
          [] c \in AsciiLetters \cup SpaceBytes \cup EndPunctBytes \cup {".", ":"} ->
               NumberEnd(st, k, "BaseState")
          [] OTHER ->
               LET d == DecodeRune(st.s, k - 1) IN
               IF ~IsDigit(d.r) THEN NumberEnd(st, k, "BaseState")
               ELSE SetI(st, k + d.w - 1)

RECURSIVE ScanNumberNoDot(_)
ScanNumberNoDot(st) ==
    IF st.i < st.stop
    THEN LET n == NumberNoDotByte(st) IN
         IF n.pc = "NumberNoDot" THEN ScanNumberNoDot(n) ELSE n
    ELSE Emit(st, Number, "Done")

\* the switch shared by Exponent and ExponentConfirmed: a digit leads to
\* ExponentConfirmed, anything else ends the number
ExponentByte(st) ==
    LET c == At(st.s, st.i)
        k == st.i + 1
    IN  CASE c \in AsciiDigits -> Goto(SetI(st, k), "ExponentConfirmed")
          [] c \in {"d", "D", "f", "F"} -> TypedNumberEnd(st, k)
          [] c \in AsciiLetters \cup SpaceBytes \cup EndPunctBytes \cup {".", ":"} ->
               NumberEnd(st, k, "BaseState")
          [] OTHER ->
               LET d == DecodeRune(st.s, k - 1) IN
               IF ~IsDigit(d.r) THEN NumberEnd(st, k, "BaseState")
               ELSE Goto(SetI(st, k + d.w - 1), "ExponentConfirmed")

\* Exponent is an if, not a loop, and at stop it goes to BaseState
ScanExponent(st) ==
    IF st.i < st.stop THEN ExponentByte(st)
    ELSE Emit(st, Number, "BaseState")

RECURSIVE ScanExponentConfirmed(_)
ScanExponentConfirmed(st) ==
    IF st.i < st.stop
    THEN LET n == ExponentByte([st EXCEPT !.pc = "ExponentConfirmed"]) IN
         IF n.pc = "ExponentConfirmed" THEN ScanExponentConfirmed(n) ELSE n
    ELSE Emit(st, Number, "Done")

\* HexNumber and BinaryNumber: digits is the set of bytes that go on
RECURSIVE ScanRadixNumber(_, _)
ScanRadixNumber(st, digits) ==
    IF st.i < st.stop
    THEN IF At(st.s, st.i) \in digits THEN ScanRadixNumber(SetI(st, st.i + 1), digits)
         ELSE Emit(st, Number, "BaseState")
    ELSE Emit(st, Number, "Done")

ScanHexNumber(st) == ScanRadixNumber(st, HexDigits)

ScanBinaryNumber(st) == ScanRadixNumber(st, {"0", "1"})

\* QuotedHexNumber and QuotedBinaryNumber
RECURSIVE ScanQuotedRadixNumber(_, _)
ScanQuotedRadixNumber(st, digits) ==
    IF st.i < st.stop
    THEN LET c == At(st.s, st.i) IN
         IF c \in digits THEN ScanQuotedRadixNumber(SetI(st, st.i + 1), digits)
         ELSE IF c = "'" THEN Emit(SetI(st, st.i + 1), Number, "BaseState")
         ELSE Emit(st, Number, "BaseState")
    ELSE Emit(st, Number, "Done")

ScanQuotedHexNumber(st) == ScanQuotedRadixNumber(st, HexDigits)

ScanQuotedBinaryNumber(st) == ScanQuotedRadixNumber(st, {"0", "1"})

RECURSIVE ScanWhitespace(_)
ScanWhitespace(st) ==
    IF st.i < st.stop
    THEN LET c == At(st.s, st.i)
             k == st.i + 1
         IN  CASE c \in SpaceBytes -> ScanWhitespace(SetI(st, k))
               [] c \in AsciiLetters \cup AsciiDigits \cup EndPunctBytes \cup {".", ":"} ->
                    Emit(st, Whitespace, "BaseState")
               [] OTHER ->
                    LET d == DecodeRune(st.s, k - 1) IN
                    IF ~IsSpace(d.r) /\ ~IsControl(d.r) THEN Emit(st, Whitespace, "BaseState")
                    ELSE ScanWhitespace(SetI(st, k + d.w - 1))
    ELSE Emit(st, Whitespace, "Done")

-----------------------------------------------------------------------------
(* Oracle deliminated strings *)

CloserOf(c) ==
    CASE c = "(" -> ")" [] c = "<" -> ">" [] c = "[" -> "]" [] c = "{" -> "}" [] OTHER -> c

ScanDeliminatedString(st) ==
    IF st.i < st.stop
    THEN LET c == At(st.s, st.i)
             k == st.i + 1
         IN  CASE c \in {"(", "<", "[", "{"} ->
                    Goto([st EXCEPT !.i = k, !.charDelim = CloserOf(c)], "DeliminatedStringCharacter")
               [] c \in {")", ">", "}", "]"} \cup SpaceBytes ->
                    \* not a valid delimiter: i -= 2; token(Word); i++
                    LET w == token(SetI(st, k - 2), Word) IN
                    Goto(SetI(w, k - 1), "SingleQuoteString")
               [] c \in AsciiLetters \cup (EndPunctBytes \ {"("}) \cup {".", ":"} ->
                    Goto([st EXCEPT !.i = k, !.charDelim = c], "DeliminatedStringCharacter")
               [] OTHER ->
                    LET d == DecodeRune(st.s, k - 1) IN
                    IF d.w = 1
                    THEN Goto([st EXCEPT !.i = k, !.charDelim = c], "DeliminatedStringCharacter")
                    ELSE Goto([st EXCEPT !.i = k + d.w - 1, !.runeDelim = d.r], "DeliminatedStringRune")
    ELSE Emit(st, Word, "Done")

RECURSIVE ScanDeliminatedStringCharacter(_)
ScanDeliminatedStringCharacter(st) ==
    IF st.i < st.stop
    THEN LET k == st.i + 1 IN
         IF At(st.s, st.i) = st.charDelim /\ k < st.stop /\ At(st.s, k) = "'"
         THEN Emit(SetI(st, k + 1), Literal, "BaseState")
         ELSE ScanDeliminatedStringCharacter(SetI(st, k))
    ELSE Emit(st, Literal, "Done")

RECURSIVE ScanDeliminatedStringRune(_)
ScanDeliminatedStringRune(st) ==
    IF st.i < st.stop
    THEN LET d == DecodeRune(st.s, st.i)
             n == SetI(st, st.i + d.w)
         IN  IF d.r = st.runeDelim THEN Emit(n, Literal, "BaseState")
             ELSE ScanDeliminatedStringRune(n)
    ELSE Emit(st, Literal, "Done")

-----------------------------------------------------------------------------
(* Dollar *)

\* i = firstDollarEnd; token(Punctuation); goto BaseState
DollarBacktrack(st) == Emit(SetI(st, st.firstDollarEnd), Punctuation, "BaseState")

\* the loop over the tag of $tag$: k is the cursor.  It returns the state at a
\* goto, or the state with pc unchanged when the loop ends at stop.
RECURSIVE DollarTagLoop(_)
DollarTagLoop(st) ==
    IF st.i < st.stop
    THEN LET c == At(st.s, st.i)
             d == DecodeRune(st.s, st.i)
             k == st.i + 1
         IN  IF c = "$"
             THEN LET endToken == Slice(st.s, st.tokenStart, k)
                      e == IndexFrom(st.s, k, endToken)
                  IN  IF e = -1 THEN DollarBacktrack(st)
                      ELSE Emit(SetI(st, k + e + Len(endToken)), Literal, "BaseState")
             ELSE IF IsLetter(d.r) THEN DollarTagLoop(SetI(st, k + d.w - 1))
             ELSE DollarBacktrack(st)
    ELSE st

\* the digits of $7: the cursor after them
RECURSIVE DollarDigits(_, _, _)
DollarDigits(str, k, stop_) ==
    IF k < stop_ /\ At(str, k) \in AsciiDigits THEN DollarDigits(str, k + 1, stop_) ELSE k

\* the part of Dollar under if config.NoticeDollarNumber, and its end; c is the
\* byte after the '$'
DollarNumberPart(st, c) ==
    IF st.config.NoticeDollarNumber /\ c \in AsciiDigits
    THEN Emit(SetI(st, DollarDigits(st.s, st.i + 1, st.stop)), DollarNumber, "BaseState")
    ELSE Emit(st, Punctuation, "BaseState")

ScanDollar(st0) ==
    LET st == [st0 EXCEPT !.firstDollarEnd = st0.i] IN
    IF st.i < st.stop
    THEN LET c == At(st.s, st.i)
             d == DecodeRune(st.s, st.i)
         IN  IF st.config.NoticeDollarQuotes
             THEN IF c = "$"
                  THEN LET e == IndexFrom(st.s, st.i + 1, <<"$", "$">>) IN
                       IF e = -1 THEN DollarBacktrack(st)
                       ELSE Emit(SetI(st, st.i + 3 + e), Literal, "BaseState")
                  ELSE IF IsLetter(d.r)
                  THEN LET n == DollarTagLoop(SetI(st, st.i + d.w)) IN
                       IF n.pc = "Dollar" THEN DollarNumberPart(n, c) ELSE n
                  ELSE DollarNumberPart(st, c)
             ELSE DollarNumberPart(st, c)
    ELSE Emit(st, Punctuation, "Done")

-----------------------------------------------------------------------------
(* The scanner as a whole *)

Labels ==
    {"Tokenize", "BaseState", "CStyleComment", "SingleQuoteString", "DoubleQuoteString",
     "SkipToEOL", "Word", "DelimiterStatementStart", "NotDelimiter", "DelimiterContinues",
     "DelimiterSingleQuote", "DelimiterDoubleQuote", "DelimiterUnquoted", "DelimiterIgnoring",
     "DelimiterFound", "DelimiterSearchStart", "ColonWordStart", "ColonWord", "Identifier",
     "AtWordStart", "AtWord", "PossibleNumber", "Number", "NumberNoDot", "Exponent",
     "ExponentConfirmed", "HexNumber", "BinaryNumber", "Whitespace", "QuotedHexNumber",
     "QuotedBinaryNumber", "DeliminatedString", "DeliminatedStringCharacter",
     "DeliminatedStringRune", "Dollar", "Done"}

\* where a scan ends: Tokenize returned, a panic, or a loop that never ends
Final == {"return", "panic", "hang"}

\* the code at the label st.pc, up to its next goto
ScanStep(st) ==
    CASE st.pc = "Tokenize" -> ScanTokenize(st)
      [] st.pc = "BaseState" -> ScanBaseState(st)
      [] st.pc = "CStyleComment" -> ScanCStyleComment(st)
      [] st.pc = "SingleQuoteString" -> ScanSingleQuoteString(st)
      [] st.pc = "DoubleQuoteString" -> ScanDoubleQuoteString(st)
      [] st.pc = "SkipToEOL" -> ScanSkipToEOL(st)
      [] st.pc = "Word" -> ScanWord(st)
      [] st.pc = "DelimiterStatementStart" -> ScanDelimiterStatementStart(st)
      [] st.pc = "NotDelimiter" -> ScanNotDelimiter(st)
      [] st.pc = "DelimiterContinues" -> ScanDelimiterContinues(st)
      [] st.pc = "DelimiterSingleQuote" -> ScanDelimiterSingleQuote(st)
      [] st.pc = "DelimiterDoubleQuote" -> ScanDelimiterDoubleQuote(st)
      [] st.pc = "DelimiterUnquoted" -> ScanDelimiterUnquoted(st)
      [] st.pc = "DelimiterIgnoring" -> ScanDelimiterIgnoring(st)
      [] st.pc = "DelimiterFound" -> ScanDelimiterFound(st)
      [] st.pc = "DelimiterSearchStart" -> ScanDelimiterSearchStart(st)
      [] st.pc = "ColonWordStart" -> ScanColonWordStart(st)
      [] st.pc = "ColonWord" -> ScanColonWord(st)
      [] st.pc = "Identifier" -> ScanIdentifier(st)
      [] st.pc = "AtWordStart" -> ScanAtWordStart(st)
      [] st.pc = "AtWord" -> ScanAtWord(st)
      [] st.pc = "PossibleNumber" -> ScanPossibleNumber(st)
      [] st.pc = "Number" -> ScanNumber(st)
      [] st.pc = "NumberNoDot" -> ScanNumberNoDot(st)
      [] st.pc = "Exponent" -> ScanExponent(st)
      [] st.pc = "ExponentConfirmed" -> ScanExponentConfirmed(st)
      [] st.pc = "HexNumber" -> ScanHexNumber(st)
      [] st.pc = "BinaryNumber" -> ScanBinaryNumber(st)
      [] st.pc = "Whitespace" -> ScanWhitespace(st)
      [] st.pc = "QuotedHexNumber" -> ScanQuotedHexNumber(st)
      [] st.pc = "QuotedBinaryNumber" -> ScanQuotedBinaryNumber(st)
      [] st.pc = "DeliminatedString" -> ScanDeliminatedString(st)
      [] st.pc = "DeliminatedStringCharacter" -> ScanDeliminatedStringCharacter(st)
      [] st.pc = "DeliminatedStringRune" -> ScanDeliminatedStringRune(st)
      [] st.pc = "Dollar" -> ScanDollar(st)
      [] st.pc = "Done" -> ScanDone(st)
      [] OTHER -> st

\* the scan run to its end
RECURSIVE ScanRun(_)
ScanRun(st) == IF st.pc \in Final THEN st ELSE ScanRun(ScanStep(st))

\* Tokenize(s, config): the final scanner state; its tokens field is the result
\* when its pc is "return"
Tokenize(str, cfg) == ScanRun(ScanStart(str, cfg))

-----------------------------------------------------------------------------
(* Tokens: String, Strip, Unstrip.  A call returns [fault, val]: fault is   *)
(* TRUE when the call panics (a slice or index out of range).               *)

Returns(v) == [fault |-> FALSE, val |-> v]

Faults == [fault |-> TRUE, val |-> <<>>]

\* String with strings.Join(strs, " ") in place of strings.Join(strs, "")
RECURSIVE StringSpaced(_)
StringSpaced(ts) ==
    IF Len(ts) = 0 THEN <<>>
    ELSE IF Len(ts) = 1 THEN Head(ts).Text
    ELSE Head(ts).Text \o <<" ">> \o StringSpaced(Tail(ts))

\* func (ts Tokens) String() string
RECURSIVE String(_)
String(ts) == IF Len(ts) = 0 THEN <<>> ELSE Head(ts).Text \o String(Tail(ts))

\* strings.TrimSpace: the one-byte white space it removes; among the runes of
\* the model it also removes U+0085 and U+00A0, two bytes each
TrimBytes == {" ", "\n", "\r", "\t", "VT", "\f"}

RECURSIVE TrimSpace(_)
TrimSpace(str) ==
    LET n == Len(str) IN
    IF n = 0 THEN str
    ELSE IF IsSpace(DecodeRune(str, 0).r) THEN TrimSpace(Slice(str, DecodeRune(str, 0).w, n))
    ELSE IF str[n] \in TrimBytes THEN TrimSpace(Slice(str, 0, n - 1))
    ELSE IF n >= 2 /\ IsSpace(DecodeRune(str, n - 2).r) /\ DecodeRune(str, n - 2).w = 2
    THEN TrimSpace(Slice(str, 0, n - 2))
    ELSE str

delimiterFrontLen == 10

delimiterIsSemicolon(statement) ==
    IF Len(statement) < delimiterFrontLen THEN FALSE
    ELSE TrimSpace(Slice(statement, delimiterFrontLen, Len(statement))) = <<";">>

lastEndsWithWhitespace(ts) ==
    IF Len(ts) = 0 THEN FALSE
    ELSE LET lastText == ts[Len(ts)].Text IN
         IF Len(lastText) = 0 THEN FALSE
         ELSE lastText[Len(lastText)] \in {" ", "\n", "\r", "BS", "\t"}

\* Strip's first loop: the index of the first token that is not a Comment, a
\* Whitespace or a Delimiter
RECURSIVE StripLeading(_, _)
StripLeading(ts, k) ==
    IF k < Len(ts) /\ ts[k + 1].Type \in {Comment, Whitespace, Delimiter}
    THEN StripLeading(ts, k + 1)
    ELSE k

\* the locals of Strip; lastReal and lastWhitespace index c, the others ts
StripStart(ts) ==
    [i |-> StripLeading(ts, 0), c |-> <<>>, lastReal |-> 0, lastWhitespace |-> 0,
     lastCapture |-> 0, lastKeptCapture |-> 0, nonStandardDelimiter |-> FALSE,
     fault |-> FALSE]

\* a variant of captureSkip that records nothing in Strip
captureSkipNothing(ts, v) == [v EXCEPT !.lastCapture = v.i + 1]

\* the closure captureSkip
captureSkip(ts, v) ==
    IF v.i - v.lastCapture > 0
    THEN IF Len(v.c) = 0 \/ v.lastCapture < 0 \/ v.i + 1 > Len(ts)
         THEN [v EXCEPT !.fault = TRUE]
         ELSE [v EXCEPT !.c[Len(v.c)].Strip = <<Slice(ts, v.lastCapture, v.i + 1)>>,
                        !.lastCapture = v.i + 1]
    ELSE [v EXCEPT !.lastCapture = v.i + 1]

\* a variant of case Whitespace that keeps the text of the white space
StripWhitespaceVerbatim(ts, v) ==
    IF v.lastWhitespace < v.lastReal
    THEN LET w == IF ~lastEndsWithWhitespace(v.c)
                  THEN captureSkip(ts, [v EXCEPT !.c = Append(v.c, ts[v.i + 1])])
                  ELSE v
         IN  [w EXCEPT !.lastWhitespace = Len(w.c)]
    ELSE v

\* case Whitespace
StripWhitespace(ts, v) ==
    LET t == ts[v.i + 1] IN
    IF v.lastWhitespace < v.lastReal
    THEN LET w == IF ~lastEndsWithWhitespace(v.c)
                  THEN captureSkip(ts,
                         [v EXCEPT !.c = Append(v.c,
                             IF t.Text # <<" ">>
                             THEN [Type |-> Whitespace, Text |-> <<" ">>, Split |-> <<>>,
                                   Strip |-> << <<t>> >>]
                             ELSE t)])
                  ELSE v
         IN  [w EXCEPT !.lastWhitespace = Len(w.c)]
    ELSE v

\* case Delimiter
StripDelimiter(ts, v) ==
    LET a == [v EXCEPT !.c = Append(v.c, ts[v.i + 1])]
        b == IF a.nonStandardDelimiter
             THEN [a EXCEPT !.lastReal = Len(a.c), !.lastKeptCapture = a.i + 1]
             ELSE a
    IN  captureSkip(ts, [b EXCEPT !.lastWhitespace = b.lastReal])

\* default: a token that is kept
StripDefault(ts, v) ==
    LET a == captureSkip(ts, [v EXCEPT !.c = Append(v.c, ts[v.i + 1])])
    IN  [a EXCEPT !.lastReal = Len(a.c), !.lastKeptCapture = a.i + 1]

\* a variant of StripDelimiterStatement that leaves the token before the
\* directive as it is
StripDelimiterStatementPlain(ts, v) ==
    LET t == ts[v.i + 1] IN
    StripDefault(ts, [v EXCEPT !.nonStandardDelimiter = ~delimiterIsSemicolon(t.Text),
                               !.lastWhitespace = Len(v.c)])

\* case DelimiterStatement, which falls through to default
StripDelimiterStatement(ts, v) ==
    LET t == ts[v.i + 1]
        n == Len(v.c)
        last == v.c[n]
        a == IF n > 0 /\ ~HasPrefixAt(t.Text, 0, <<"\n">>)
             THEN IF last.Type = Whitespace
                  THEN [v EXCEPT !.c[n] =
                          [last EXCEPT !.Strip = IF last.Strip = <<>> THEN << <<last>> >> ELSE @,
                                       !.Text = <<"\n">>]]
                  ELSE IF Len(last.Text) = 0 \/ last.Text[Len(last.Text)] # "\n"
                  THEN [v EXCEPT !.c = Append(v.c,
                          [Type |-> Whitespace, Text |-> <<"\n">>, Split |-> <<>>,
                           Strip |-> << <<>> >>])]
                  ELSE v
             ELSE v
        b == [a EXCEPT !.nonStandardDelimiter = ~delimiterIsSemicolon(t.Text),
                       !.lastWhitespace = Len(a.c)]
    IN  StripDefault(ts, b)

\* Strip's main loop, from v.i
RECURSIVE StripLoop(_, _)
StripLoop(ts, v) ==
    IF v.fault \/ v.i >= Len(ts) THEN v
    ELSE LET ty == ts[v.i + 1].Type
             w == CASE ty = Comment -> v
                    [] ty = Whitespace -> StripWhitespace(ts, v)
                    [] ty = Delimiter -> StripDelimiter(ts, v)
                    [] ty = DelimiterStatement -> StripDelimiterStatement(ts, v)
                    [] OTHER -> StripDefault(ts, v)
         IN  StripLoop(ts, [w EXCEPT !.i = w.i + 1])

\* a variant of the end of Strip that cuts c one token short of lastReal
StripEndShort(ts, v) ==
    Returns(SubSeq(v.c, 1, IF v.lastReal > 1 THEN v.lastReal - 1 ELSE v.lastReal))

\* what Strip does after its loop: cut c at lastReal and hang what was cut on
\* the last token kept
StripEnd(ts, v) ==
    LET c == IF v.lastReal < Len(v.c) THEN SubSeq(v.c, 1, v.lastReal) ELSE v.c
        n == Len(c)
    IN  IF n > 0 /\ v.i - v.lastKeptCapture > 0
        THEN IF c[n].Strip = <<>> /\ v.lastKeptCapture - 1 < 0 THEN Faults
             ELSE Returns([c EXCEPT ![n] =
                    [c[n] EXCEPT
                       !.Strip = IF c[n].Strip = <<>>
                                 THEN <<Slice(ts, v.lastKeptCapture - 1, Len(ts))>>
                                 ELSE <<c[n].Strip[1] \o Slice(ts, v.lastKeptCapture, Len(ts))>>,
                       !.Split = ts[Len(ts)].Split]])
        ELSE Returns(c)

\* func (ts Tokens) Strip() Tokens
Strip(ts) ==
    IF Len(ts) = 0 THEN Returns(ts)
    ELSE LET v == StripLoop(ts, StripStart(ts)) IN
         IF v.fault THEN Faults ELSE StripEnd(ts, v)

\* func (ts Tokens) Unstrip() Tokens
RECURSIVE Unstrip(_)
Unstrip(ts) ==
    IF Len(ts) = 0 THEN <<>>
    ELSE (IF Head(ts).Strip # <<>> THEN Head(ts).Strip[1] ELSE <<Head(ts)>>) \o Unstrip(Tail(ts))

-----------------------------------------------------------------------------
(* CmdSplitUnstripped, CmdSplit, Join *)

\* var empty = Token{Type: Empty}
empty == Token(Empty, <<>>)

\* a variant of wrapIfNeeded that does not record the delimiter in Split
wrapIfNeededNoSplit(hasContents, needsWrap, needsUnwrap, ts, t) ==
    IF Len(ts) = 0 THEN <<>>
    ELSE IF needsWrap = <<>> /\ ~needsUnwrap /\ t = <<>> THEN ts
    ELSE LET front == IF needsWrap # <<>> /\ hasContents
                      THEN <<[Type |-> DelimiterStatement, Text |-> needsWrap,
                              Split |-> <<empty>>, Strip |-> <<>>]>>
                      ELSE <<>>
             back == IF needsUnwrap /\ hasContents
                     THEN t \o <<[Type |-> DelimiterStatement,
                                  Text |-> <<"\n", "D", "E", "L", "I", "M", "I", "T", "E", "R",
                                             " ", ";", "\n">>,
                                  Split |-> <<empty>>, Strip |-> <<>>]>>
                     ELSE <<>>
         IN  front \o ts \o back

\* wrapIfNeeded returning the delimiter as a command when ts is empty
wrapIfNeededKeepDelimiter(hasContents, needsWrap, needsUnwrap, ts, t) ==
    IF Len(ts) = 0 THEN t
    ELSE IF needsWrap = <<>> /\ ~needsUnwrap /\ t = <<>> THEN ts
    ELSE LET front == IF needsWrap # <<>> /\ hasContents
                      THEN <<[Type |-> DelimiterStatement, Text |-> needsWrap,
                              Split |-> <<empty>>, Strip |-> <<>>]>>
                      ELSE <<>>
             body == IF t # <<>> /\ ~needsUnwrap
                     THEN [ts EXCEPT ![Len(ts)].Split = t]
                     ELSE ts
             back == IF needsUnwrap /\ hasContents
                     THEN t \o <<[Type |-> DelimiterStatement,
                                  Text |-> <<"\n", "D", "E", "L", "I", "M", "I", "T", "E", "R",
                                             " ", ";", "\n">>,
                                  Split |-> <<empty>>, Strip |-> <<>>]>>
                     ELSE <<>>
         IN  front \o body \o back

\* wrapIfNeeded returning Tokens{} for a span that has no contents
wrapIfNeededDropBlank(hasContents, needsWrap, needsUnwrap, ts, t) ==
    IF Len(ts) = 0 \/ ~hasContents THEN <<>>
    ELSE IF needsWrap = <<>> /\ ~needsUnwrap /\ t = <<>> THEN ts
    ELSE LET front == IF needsWrap # <<>>
                      THEN <<[Type |-> DelimiterStatement, Text |-> needsWrap,
                              Split |-> <<empty>>, Strip |-> <<>>]>>
                      ELSE <<>>
             body == IF t # <<>> /\ ~needsUnwrap
                     THEN [ts EXCEPT ![Len(ts)].Split = t]
                     ELSE ts
             back == IF needsUnwrap
                     THEN t \o <<[Type |-> DelimiterStatement,
                                  Text |-> <<"\n", "D", "E", "L", "I", "M", "I", "T", "E", "R",
                                             " ", ";", "\n">>,
                                  Split |-> <<empty>>, Strip |-> <<>>]>>
                     ELSE <<>>
         IN  front \o body \o back

\* a variant of wrapIfNeeded that does not put the delimiter before the
\* closing directive
wrapIfNeededNoInline(hasContents, needsWrap, needsUnwrap, ts, t) ==
    IF Len(ts) = 0 THEN <<>>
    ELSE IF needsWrap = <<>> /\ ~needsUnwrap /\ t = <<>> THEN ts
    ELSE LET front == IF needsWrap # <<>> /\ hasContents
                      THEN <<[Type |-> DelimiterStatement, Text |-> needsWrap,
                              Split |-> <<empty>>, Strip |-> <<>>]>>
                      ELSE <<>>
             body == IF t # <<>> /\ ~needsUnwrap
                     THEN [ts EXCEPT ![Len(ts)].Split = t]
                     ELSE ts
             back == IF needsUnwrap /\ hasContents
                     THEN <<[Type |-> DelimiterStatement,
                             Text |-> <<"\n", "D", "E", "L", "I", "M", "I", "T", "E", "R",
                                        " ", ";", "\n">>,
                             Split |-> <<empty>>, Strip |-> <<>>]>>
                     ELSE <<>>
         IN  front \o body \o back

\* t is <<>> for nil and <<tok>> for a pointer to tok
wrapIfNeeded(hasContents, needsWrap, needsUnwrap, ts, t) ==
    IF Len(ts) = 0 THEN <<>>
    ELSE IF needsWrap = <<>> /\ ~needsUnwrap /\ t = <<>> THEN ts
    ELSE LET front == IF needsWrap # <<>> /\ hasContents
                      THEN <<[Type |-> DelimiterStatement, Text |-> needsWrap,
                              Split |-> <<empty>>, Strip |-> <<>>]>>
                      ELSE <<>>
             body == IF t # <<>> /\ ~needsUnwrap
                     THEN [ts EXCEPT ![Len(ts)].Split = t]
                     ELSE ts
             back == IF needsUnwrap /\ hasContents
                     THEN t \o <<[Type |-> DelimiterStatement,
                                  Text |-> <<"\n", "D", "E", "L", "I", "M", "I", "T", "E", "R",
                                             " ", ";", "\n">>,
                                  Split |-> <<empty>>, Strip |-> <<>>]>>
                     ELSE <<>>
         IN  front \o body \o back

\* the loop labelled Lookahead, from j: the index of the DelimiterStatement it
\* breaks at, or -1 when it runs to the end.  Its switch has no default, so a
\* token of any other type is passed over like a Comment.
RECURSIVE Lookahead(_, _)
Lookahead(ts, j) ==
    IF j < Len(ts)
    THEN CASE ts[j + 1].Type \in {Comment, Whitespace, Empty} -> Lookahead(ts, j + 1)
           [] ts[j + 1].Type = DelimiterStatement -> j
           [] OTHER -> Lookahead(ts, j + 1)
    ELSE -1

\* the locals of CmdSplitUnstripped
SplitStart ==
    [r |-> <<>>, start |-> 0, delimiter |-> <<>>, needsWrap |-> <<>>, needsUnwrap |-> FALSE,
     hasDelimiterStatement |-> FALSE, hasContents |-> FALSE, fault |-> FALSE]

\* case DelimiterStatement, at index k
SplitDelimiterStatement(ts, v, k) ==
    LET t == ts[k + 1]
        a == IF v.delimiter # <<>> /\ ~v.hasContents /\ k - v.start > 0
             THEN [v EXCEPT !.r = Append(v.r, wrapIfNeeded(FALSE, v.needsWrap, FALSE,
                                                Slice(ts, v.start, k + 1), <<>>)),
                            !.start = k + 1,
                            !.needsWrap = <<>>]
             ELSE v
    IN  IF delimiterIsSemicolon(t.Text)
        THEN [a EXCEPT !.needsUnwrap = FALSE, !.delimiter = <<>>]
        ELSE [a EXCEPT !.delimiter = t.Text, !.needsUnwrap = TRUE,
                       !.hasDelimiterStatement = TRUE]

\* case Delimiter, at index k.  The assignment i = j + 1 changes the loop
\* variable for the rest of this iteration only: range goes on from k + 1.
SplitDelimiter(ts, v, k) ==
    LET j == Lookahead(ts, k + 1)
        jump == v.needsUnwrap /\ j >= 0 /\ delimiterIsSemicolon(ts[j + 1].Text)
        ii == IF jump THEN j + 1 ELSE k
        tp == IF jump THEN <<>> ELSE <<ts[k + 1]>>
        a == IF jump THEN [v EXCEPT !.needsUnwrap = FALSE, !.delimiter = <<>>] ELSE v
    IN  IF a.start > ii \/ ii > Len(ts) THEN [v EXCEPT !.fault = TRUE]
        ELSE [a EXCEPT !.r = Append(a.r, wrapIfNeeded(a.hasContents, a.needsWrap,
                                           a.needsUnwrap, Slice(ts, a.start, ii), tp)),
                       !.start = IF tp # <<>> THEN ii + 1 ELSE ii,
                       !.hasDelimiterStatement = FALSE,
                       !.needsWrap = <<>>,
                       !.needsUnwrap = (a.delimiter # <<>>),
                       !.hasContents = FALSE]

\* default: a token that is neither of those nor Whitespace, Comment or Empty
SplitDefault(v) ==
    [v EXCEPT !.needsWrap = IF v.delimiter # <<>> /\ ~v.hasDelimiterStatement
                            THEN v.delimiter ELSE @,
              !.hasContents = TRUE]

\* for i, t := range ts, from index k
RECURSIVE SplitLoop(_, _, _)
SplitLoop(ts, v, k) ==
    IF v.fault \/ k >= Len(ts) THEN v
    ELSE LET ty == ts[k + 1].Type
             w == CASE ty = DelimiterStatement -> SplitDelimiterStatement(ts, v, k)
                    [] ty = Delimiter -> SplitDelimiter(ts, v, k)
                    [] ty \in {Whitespace, Comment, Empty} -> v
                    [] OTHER -> SplitDefault(v)
         IN  SplitLoop(ts, w, k + 1)

\* func (ts Tokens) CmdSplitUnstripped() TokensList
CmdSplitUnstripped(ts) ==
    LET v == SplitLoop(ts, SplitStart, 0) IN
    IF v.fault THEN Faults
    ELSE IF v.start < Len(ts)
    THEN Returns(Append(v.r, wrapIfNeeded(v.hasContents, v.needsWrap, v.needsUnwrap,
                                          Slice(ts, v.start, Len(ts)), <<>>)))
    ELSE Returns(v.r)

\* CmdSplit's loop without the test of len(s) > 0
RECURSIVE StripEachKeepEmpty(_)
StripEachKeepEmpty(tl) ==
    IF Len(tl) = 0 THEN Returns(<<>>)
    ELSE LET st == Strip(Head(tl))
             rest == StripEachKeepEmpty(Tail(tl))
         IN  IF st.fault \/ rest.fault THEN Faults
             ELSE Returns(<<st.val>> \o rest.val)

\* CmdSplit's loop: Strip each command and keep the ones that are not empty
RECURSIVE StripEach(_)
StripEach(tl) ==
    IF Len(tl) = 0 THEN Returns(<<>>)
    ELSE LET st == Strip(Head(tl))
             rest == StripEach(Tail(tl))
         IN  IF st.fault \/ rest.fault THEN Faults
             ELSE Returns((IF Len(st.val) > 0 THEN <<st.val>> ELSE <<>>) \o rest.val)

\* func (ts Tokens) CmdSplit() TokensList
CmdSplit(ts) ==
    LET r == CmdSplitUnstripped(ts) IN
    IF r.fault THEN Faults ELSE StripEach(r.val)

\* func (tl TokensList) Strings() []string: the renderings that are not empty
Strings(tl) == SelectSeq([k \in 1..Len(tl) |-> String(tl[k])], LAMBDA str : str # <<>>)

\* list.FilterEmptySlices
FilterEmptySlices(tl) == SelectSeq(tl, LAMBDA ts : Len(ts) > 0)

isWhitespaceOnly(ts) == \A k \in 1..Len(ts) : ts[k].Type \in {Whitespace, Empty, Comment}

\* the index (from 0) of the last command that is not white space only, or -1
indexLastReal(tl) ==
    LET real == {k \in 0..(Len(tl) - 1) : ~isWhitespaceOnly(tl[k + 1])}
    IN  IF real = {} THEN -1 ELSE CHOOSE k \in real : \A h \in real : h <= k

\* Join's inner loop without the test that skips a token with a Split
RECURSIVE JoinTokensKeepAll(_, _, _, _)
JoinTokensKeepAll(ts, ci, last, j) ==
    IF j >= Len(ts) THEN <<>>
    ELSE LET tk == ts[j + 1]
             rest == JoinTokensKeepAll(ts, ci, last, j + 1)
         IN  IF tk.Type = Empty THEN rest
             ELSE <<[tk EXCEPT !.Split = <<>>]>> \o rest

\* Join's inner loop over the tokens of command number ci (from 0), from index j
RECURSIVE JoinTokens(_, _, _, _)
JoinTokens(ts, ci, last, j) ==
    IF j >= Len(ts) THEN <<>>
    ELSE LET tk == ts[j + 1]
             rest == JoinTokens(ts, ci, last, j + 1)
         IN  IF tk.Type = Empty THEN rest
             ELSE IF tk.Split # <<>>
             THEN IF \/ tk.Split[1].Type = Empty /\ ci < last
                     \/ ci = last /\ j < Len(ts) - 1
                  THEN rest
                  ELSE <<[tk EXCEPT !.Split = <<>>]>> \o rest
             ELSE <<tk>> \o rest

\* Join's outer loop, from command number ci
RECURSIVE JoinLoop(_, _, _)
JoinLoop(tl, last, ci) ==
    IF ci >= Len(tl) THEN Returns(<<>>)
    ELSE LET ts == tl[ci + 1] IN
         \* last := tokens[len(tokens)-1]
         IF Len(ts) = 0 THEN Faults
         ELSE LET end == ts[Len(ts)]
                  rest == JoinLoop(tl, last, ci + 1)
              IN  IF rest.fault THEN Faults
                  ELSE Returns(JoinTokens(ts, ci, last, 0)
                                 \o (IF end.Split # <<>> /\ end.Split[1].Type # Empty
                                     THEN <<[end.Split[1] EXCEPT !.Split = <<>>]>>
                                     ELSE <<>>)
                                 \o rest.val)

\* Join without the call of list.FilterEmptySlices
JoinUnfiltered(tl) ==
    IF Len(tl) = 0 THEN Returns(<<>>) ELSE JoinLoop(tl, indexLastReal(tl), 0)

\* func (tl TokensList) Join() Tokens
Join(tl0) ==
    LET tl == FilterEmptySlices(tl0) IN
    IF Len(tl) = 0 THEN Returns(<<>>) ELSE JoinLoop(tl, indexLastReal(tl), 0)

-----------------------------------------------------------------------------
(* Memory.  The transforms once more, on slices of backing arrays, to see   *)
(* what a call stores and where.  A heap is a sequence of arrays, an array  *)
(* a sequence of cells as long as its capacity.  A slice is [a, lo, len]:   *)
(* array a from cell lo (counted from 0); a = 0 is the nil slice.  A        *)
(* pointer is [a, k]: cell k of array a; a = 0 is nil.  A cell is a Token   *)
(* whose Split is a pointer and whose Strip is a slice.                     *)

NilSlice == [a |-> 0, lo |-> 0, len |-> 0]

NilPtr == [a |-> 0, k |-> 0]

\* the zero Token
ZeroCell == [Type |-> Comment, Text |-> <<>>, Split |-> NilPtr, Strip |-> NilSlice]

\* var empty = Token{Type: Empty} lives in array 1
EmptyPtr == [a |-> 1, k |-> 0]

Heap0 == << <<[ZeroCell EXCEPT !.Type = Empty]>> >>

\* make([]Token, 0, n)
Make(h, n) == [h |-> Append(h, [k \in 1..n |-> ZeroCell]),
               sl |-> [a |-> Len(h) + 1, lo |-> 0, len |-> 0]]

Cap(h, sl) == IF sl.a = 0 THEN 0 ELSE Len(h[sl.a]) - sl.lo

\* sl[k]
Cell(h, sl, k) == h[sl.a][sl.lo + k + 1]

\* *p
Deref(h, p) == h[p.a][p.k + 1]

\* the cells of sl, in order
Cells(h, sl) == [k \in 1..sl.len |-> h[sl.a][sl.lo + k]]

\* sl[k] = c
Store(h, sl, k, c) == [h EXCEPT ![sl.a][sl.lo + k + 1] = c]

\* sl[lo:hi]
Sub(sl, lo, hi) == [a |-> sl.a, lo |-> sl.lo + lo, len |-> hi - lo]

\* the capacity append grows to
GrowCap(old, need) == IF need > 2 * old THEN need ELSE 2 * old

\* append(sl, cs...): in place when the capacity allows, whoever else shares
\* the array, and into a new array otherwise
AppendCells(h, sl, cs) ==
    LET n == sl.len + Len(cs) IN
    IF n <= Cap(h, sl)
    THEN [h |-> [h EXCEPT ![sl.a] =
                    [k \in 1..Len(h[sl.a]) |->
                        IF k > sl.lo + sl.len /\ k <= sl.lo + n
                        THEN cs[k - sl.lo - sl.len]
                        ELSE h[sl.a][k]]],
          sl |-> [sl EXCEPT !.len = n]]
    ELSE LET old == Cells(h, sl)
             c == GrowCap(Cap(h, sl), n)
         IN  [h |-> Append(h, [k \in 1..c |->
                                  IF k <= sl.len THEN old[k]
                                  ELSE IF k <= n THEN cs[k - sl.len]
                                  ELSE ZeroCell]),
              sl |-> [a |-> Len(h) + 1, lo |-> 0, len |-> n]]

\* func copySlice
copySliceAt(h, sl) ==
    IF sl.a = 0 THEN [h |-> h, sl |-> NilSlice]
    ELSE [h |-> Append(h, Cells(h, sl)), sl |-> [a |-> Len(h) + 1, lo |-> 0, len |-> sl.len]]

\* func (t Token) Copy() Token
CopyAt(h, c) ==
    LET m == copySliceAt(h, c.Strip) IN [h |-> m.h, c |-> [c EXCEPT !.Strip = m.sl]]

\* func (ts Tokens) Copy() Tokens, from index k: n[k] = t.Copy()
RECURSIVE TokensCopyLoop(_, _, _, _)
TokensCopyLoop(h, ts, n, k) ==
    IF k >= ts.len THEN [h |-> h, sl |-> n]
    ELSE LET c == CopyAt(h, Cell(h, ts, k))
             a == AppendCells(c.h, n, <<c.c>>)
         IN  TokensCopyLoop(a.h, ts, a.sl, k + 1)

\* func (ts Tokens) Copy() Tokens
TokensCopyAt(h, ts) ==
    IF ts.a = 0 THEN [h |-> h, sl |-> NilSlice]
    ELSE LET m == Make(h, ts.len) IN TokensCopyLoop(m.h, ts, m.sl, 0)

\* func (tl TokensList) Copy() TokensList, from command k (from 0); n is the
\* list of the copies made so far
RECURSIVE TokensListCopyLoop(_, _, _, _)
TokensListCopyLoop(h, tl, n, k) ==
    IF k >= Len(tl) THEN [h |-> h, tl |-> n]
    ELSE LET c == TokensCopyAt(h, tl[k + 1])
         IN  TokensListCopyLoop(c.h, tl, Append(n, c.sl), k + 1)

\* func (tl TokensList) Copy() TokensList
TokensListCopyAt(h, tl) == TokensListCopyLoop(h, tl, <<>>, 0)

\* the Tokens a slice holds, with what its cells point to
RECURSIVE TokenAt(_, _), TokensAt(_, _)
TokenAt(h, c) ==
    [Type |-> c.Type, Text |-> c.Text,
     Split |-> IF c.Split.a = 0 THEN <<>> ELSE <<TokenAt(h, Deref(h, c.Split))>>,
     Strip |-> IF c.Strip.a = 0 THEN <<>> ELSE <<TokensAt(h, c.Strip)>>]
TokensAt(h, sl) == [k \in 1..sl.len |-> TokenAt(h, h[sl.a][sl.lo + k])]

\* the capacity of what Tokenize returns for n tokens: tokens is made with
\* capacity c and grown by append
RECURSIVE TokenizeCap(_, _)
TokenizeCap(n, c) == IF n <= c THEN c ELSE TokenizeCap(n, GrowCap(c, c + 1))

\* the heap after ts := Tokenize(str, cfg), ts in array 2
TokenizeAt(str, ts) ==
    LET c == TokenizeCap(Len(ts), Len(str) \div 5) IN
    [h |-> Append(Heap0, [k \in 1..c |->
                             IF k <= Len(ts)
                             THEN [Type |-> ts[k].Type, Text |-> ts[k].Text,
                                   Split |-> NilPtr, Strip |-> NilSlice]
                             ELSE ZeroCell]),
     sl |-> [a |-> 2, lo |-> 0, len |-> Len(ts)]]

\* Tokens{c}: a new array of one cell
OneCell(h, c) == [h |-> Append(h, <<c>>), sl |-> [a |-> Len(h) + 1, lo |-> 0, len |-> 1]]

\* append(sl, c)
AppendCell(h, sl, c) == AppendCells(h, sl, <<c>>)

\* the locals of Strip and the heap; c is a slice of the array made for it
StripAtStart(h, ts) ==
    LET m == Make(h, ts.len) IN
    [h |-> m.h, c |-> m.sl, i |-> StripLeading(Cells(h, ts), 0), lastReal |-> 0,
     lastWhitespace |-> 0, lastCapture |-> 0, lastKeptCapture |-> 0,
     nonStandardDelimiter |-> FALSE, fault |-> FALSE]

\* c = append(c, x) in the locals v
Appended(v, x) ==
    LET m == AppendCell(v.h, v.c, x) IN [v EXCEPT !.h = m.h, !.c = m.sl]

\* the closure captureSkip: it stores into c a copy of c's last token whose
\* Strip is a slice of ts
captureSkipAt(ts, v) ==
    IF v.i - v.lastCapture > 0
    THEN IF v.c.len = 0 \/ v.lastCapture < 0 \/ v.i + 1 > Cap(v.h, ts)
         THEN [v EXCEPT !.fault = TRUE]
         ELSE LET m == CopyAt(v.h, Cell(v.h, v.c, v.c.len - 1))
                  tok == [m.c EXCEPT !.Strip = Sub(ts, v.lastCapture, v.i + 1)]
              IN  [v EXCEPT !.h = Store(m.h, v.c, v.c.len - 1, tok),
                            !.lastCapture = v.i + 1]
    ELSE [v EXCEPT !.lastCapture = v.i + 1]

\* case Whitespace
StripAtWhitespace(ts, v) ==
    LET t == Cell(v.h, ts, v.i) IN
    IF v.lastWhitespace < v.lastReal
    THEN LET w == IF ~lastEndsWithWhitespace(Cells(v.h, v.c))
                  THEN IF t.Text # <<" ">>
                       THEN LET m == OneCell(v.h, t) IN
                            captureSkipAt(ts,
                              Appended([v EXCEPT !.h = m.h],
                                       [Type |-> Whitespace, Text |-> <<" ">>,
                                        Split |-> NilPtr, Strip |-> m.sl]))
                       ELSE captureSkipAt(ts, Appended(v, t))
                  ELSE v
         IN  [w EXCEPT !.lastWhitespace = w.c.len]
    ELSE v

\* case Delimiter
StripAtDelimiter(ts, v) ==
    LET a == Appended(v, Cell(v.h, ts, v.i))
        b == IF a.nonStandardDelimiter
             THEN [a EXCEPT !.lastReal = a.c.len, !.lastKeptCapture = a.i + 1]
             ELSE a
    IN  captureSkipAt(ts, [b EXCEPT !.lastWhitespace = b.lastReal])

\* default: a token that is kept
StripAtDefault(ts, v) ==
    LET a == captureSkipAt(ts, Appended(v, Cell(v.h, ts, v.i)))
    IN  [a EXCEPT !.lastReal = a.c.len, !.lastKeptCapture = a.i + 1]

\* case DelimiterStatement, which falls through to default
StripAtDelimiterStatement(ts, v) ==
    LET t == Cell(v.h, ts, v.i)
        n == v.c.len
        last == Cell(v.h, v.c, n - 1)
        a == IF n > 0 /\ ~HasPrefixAt(t.Text, 0, <<"\n">>)
             THEN IF last.Type = Whitespace
                  THEN IF last.Strip.a = 0
                       THEN LET m == CopyAt(v.h, last)
                                o == OneCell(m.h, last)
                            IN  [v EXCEPT !.h = Store(o.h, v.c, n - 1,
                                             [m.c EXCEPT !.Strip = o.sl, !.Text = <<"\n">>])]
                       ELSE [v EXCEPT !.h = Store(v.h, v.c, n - 1,
                                             [last EXCEPT !.Text = <<"\n">>])]
                  ELSE IF Len(last.Text) = 0 \/ last.Text[Len(last.Text)] # "\n"
                  THEN LET m == Make(v.h, 0) IN
                       Appended([v EXCEPT !.h = m.h],
                                [Type |-> Whitespace, Text |-> <<"\n">>,
                                 Split |-> NilPtr, Strip |-> m.sl])
                  ELSE v
             ELSE v
        b == [a EXCEPT !.nonStandardDelimiter = ~delimiterIsSemicolon(t.Text),
                       !.lastWhitespace = a.c.len]
    IN  StripAtDefault(ts, b)

\* Strip's main loop, from v.i
RECURSIVE StripAtLoop(_, _)
StripAtLoop(ts, v) ==
    IF v.fault \/ v.i >= ts.len THEN v
    ELSE LET ty == Cell(v.h, ts, v.i).Type
             w == CASE ty = Comment -> v
                    [] ty = Whitespace -> StripAtWhitespace(ts, v)
                    [] ty = Delimiter -> StripAtDelimiter(ts, v)
                    [] ty = DelimiterStatement -> StripAtDelimiterStatement(ts, v)
                    [] OTHER -> StripAtDefault(ts, v)
         IN  StripAtLoop(ts, [w EXCEPT !.i = w.i + 1])

\* what Strip does after its loop: cut c at lastReal and hang what was cut on
\* the last token kept, in a copy of its Strip or in a slice of ts
StripAtEnd(ts, v) ==
    LET c == IF v.lastReal < v.c.len THEN Sub(v.c, 0, v.lastReal) ELSE v.c
        n == c.len
        last == Cell(v.h, c, n - 1)
    IN  IF n > 0 /\ v.i - v.lastKeptCapture > 0
        THEN IF last.Strip.a = 0
             THEN IF v.lastKeptCapture - 1 < 0 THEN [h |-> v.h, sl |-> c, fault |-> TRUE]
                  ELSE [h |-> Store(v.h, c, n - 1,
                                [last EXCEPT !.Strip = Sub(ts, v.lastKeptCapture - 1, ts.len),
                                             !.Split = Cell(v.h, ts, ts.len - 1).Split]),
                        sl |-> c, fault |-> FALSE]
             ELSE LET m == copySliceAt(v.h, last.Strip)
                      o == AppendCells(m.h, m.sl,
                                       Cells(m.h, Sub(ts, v.lastKeptCapture, ts.len)))
                  IN  [h |-> Store(o.h, c, n - 1,
                                [last EXCEPT !.Strip = o.sl,
                                             !.Split = Cell(v.h, ts, ts.len - 1).Split]),
                       sl |-> c, fault |-> FALSE]
        ELSE [h |-> v.h, sl |-> c, fault |-> FALSE]

\* func (ts Tokens) Strip() Tokens
StripAt(h, ts) ==
    IF ts.len = 0 THEN [h |-> h, sl |-> ts, fault |-> FALSE]
    ELSE LET v == StripAtLoop(ts, StripAtStart(h, ts)) IN
         IF v.fault THEN [h |-> v.h, sl |-> NilSlice, fault |-> TRUE] ELSE StripAtEnd(ts, v)

\* func (ts Tokens) Unstrip() Tokens
RECURSIVE UnstripAtLoop(_, _, _, _)
UnstripAtLoop(h, ts, n, k) ==
    IF k >= ts.len THEN [h |-> h, sl |-> n, fault |-> FALSE]
    ELSE LET c == Cell(h, ts, k)
             m == IF c.Strip.a # 0 THEN AppendCells(h, n, Cells(h, c.Strip))
                  ELSE AppendCell(h, n, c)
         IN  UnstripAtLoop(m.h, ts, m.sl, k + 1)

UnstripAt(h, ts) == LET m == Make(h, ts.len) IN UnstripAtLoop(m.h, ts, m.sl, 0)

\* a variant of wrapIfNeeded that sets Split in the last token of ts itself
\* rather than in a copy of it
wrapIfNeededAtInPlace(h, hasContents, needsWrap, needsUnwrap, ts, t) ==
    IF ts.len = 0 THEN Make(h, 0)
    ELSE IF needsWrap = <<>> /\ ~needsUnwrap /\ t.a = 0 THEN [h |-> h, sl |-> ts]
    ELSE LET n0 == Make(h, ts.len + 2)
             n1 == IF needsWrap # <<>> /\ hasContents
                   THEN AppendCell(n0.h, n0.sl,
                                   [Type |-> DelimiterStatement, Text |-> needsWrap,
                                    Split |-> EmptyPtr, Strip |-> NilSlice])
                   ELSE n0
             n2 == IF t.a # 0 /\ ~needsUnwrap
                   THEN LET g == Store(n1.h, ts, ts.len - 1,
                                       [Cell(n1.h, ts, ts.len - 1) EXCEPT !.Split = t])
                        IN  AppendCells(g, n1.sl, Cells(g, ts))
                   ELSE AppendCells(n1.h, n1.sl, Cells(n1.h, ts))
         IN  IF needsUnwrap /\ hasContents
             THEN LET n3 == IF t.a # 0 THEN AppendCell(n2.h, n2.sl, Deref(n2.h, t)) ELSE n2
                  IN  AppendCell(n3.h, n3.sl,
                                 [Type |-> DelimiterStatement,
                                  Text |-> <<"\n", "D", "E", "L", "I", "M", "I", "T", "E", "R",
                                             " ", ";", "\n">>,
                                  Split |-> EmptyPtr, Strip |-> NilSlice])
             ELSE n2

\* func wrapIfNeeded, t a pointer: when nothing is to be added it returns
\* ts itself, a slice of the caller's array; otherwise a new array n
wrapIfNeededAt(h, hasContents, needsWrap, needsUnwrap, ts, t) ==
    IF ts.len = 0 THEN Make(h, 0)
    ELSE IF needsWrap = <<>> /\ ~needsUnwrap /\ t.a = 0 THEN [h |-> h, sl |-> ts]
    ELSE LET n0 == Make(h, ts.len + 2)
             n1 == IF needsWrap # <<>> /\ hasContents
                   THEN AppendCell(n0.h, n0.sl,
                                   [Type |-> DelimiterStatement, Text |-> needsWrap,
                                    Split |-> EmptyPtr, Strip |-> NilSlice])
                   ELSE n0
             n2 == IF t.a # 0 /\ ~needsUnwrap
                   THEN LET a == AppendCells(n1.h, n1.sl,
                                             Cells(n1.h, Sub(ts, 0, ts.len - 1)))
                            m == CopyAt(a.h, Cell(a.h, ts, ts.len - 1))
                        IN  AppendCell(m.h, a.sl, [m.c EXCEPT !.Split = t])
                   ELSE AppendCells(n1.h, n1.sl, Cells(n1.h, ts))
         IN  IF needsUnwrap /\ hasContents
             THEN LET n3 == IF t.a # 0 THEN AppendCell(n2.h, n2.sl, Deref(n2.h, t)) ELSE n2
                  IN  AppendCell(n3.h, n3.sl,
                                 [Type |-> DelimiterStatement,
                                  Text |-> <<"\n", "D", "E", "L", "I", "M", "I", "T", "E", "R",
                                             " ", ";", "\n">>,
                                  Split |-> EmptyPtr, Strip |-> NilSlice])
             ELSE n2

\* the locals of CmdSplitUnstripped and the heap; r is a list of slices
SplitAtStart(h) ==
    [h |-> h, r |-> <<>>, start |-> 0, delimiter |-> <<>>, needsWrap |-> <<>>,
     needsUnwrap |-> FALSE, hasDelimiterStatement |-> FALSE, hasContents |-> FALSE,
     fault |-> FALSE]

\* r = append(r, wrapIfNeeded(...)) in the locals v
Wrapped(v, hasContents, needsWrap, needsUnwrap, ts, t) ==
    LET m == wrapIfNeededAt(v.h, hasContents, needsWrap, needsUnwrap, ts, t) IN
    [v EXCEPT !.h = m.h, !.r = Append(v.r, m.sl)]

\* case DelimiterStatement, at index k
SplitAtDelimiterStatement(ts, v, k) ==
    LET t == Cell(v.h, ts, k)
        a == IF v.delimiter # <<>> /\ ~v.hasContents /\ k - v.start > 0
             THEN [Wrapped(v, FALSE, v.needsWrap, FALSE, Sub(ts, v.start, k + 1), NilPtr)
                     EXCEPT !.start = k + 1, !.needsWrap = <<>>]
             ELSE v
    IN  IF delimiterIsSemicolon(t.Text)
        THEN [a EXCEPT !.needsUnwrap = FALSE, !.delimiter = <<>>]
        ELSE [a EXCEPT !.delimiter = t.Text, !.needsUnwrap = TRUE,
                       !.hasDelimiterStatement = TRUE]

\* case Delimiter, at index k: tp := &ts[i] points into the caller's array
SplitAtDelimiter(ts, v, k) ==
    LET cs == Cells(v.h, ts)
        j == Lookahead(cs, k + 1)
        jump == v.needsUnwrap /\ j >= 0 /\ delimiterIsSemicolon(cs[j + 1].Text)
        ii == IF jump THEN j + 1 ELSE k
        tp == IF jump THEN NilPtr ELSE [a |-> ts.a, k |-> ts.lo + k]
        a == IF jump THEN [v EXCEPT !.needsUnwrap = FALSE, !.delimiter = <<>>] ELSE v
    IN  IF a.start > ii \/ ii > Cap(v.h, ts) THEN [v EXCEPT !.fault = TRUE]
        ELSE [Wrapped(a, a.hasContents, a.needsWrap, a.needsUnwrap,
                      Sub(ts, a.start, ii), tp)
                EXCEPT !.start = IF tp.a # 0 THEN ii + 1 ELSE ii,
                       !.hasDelimiterStatement = FALSE,
                       !.needsWrap = <<>>,
                       !.needsUnwrap = (a.delimiter # <<>>),
                       !.hasContents = FALSE]

\* for i, t := range ts, from index k
RECURSIVE SplitAtLoop(_, _, _)
SplitAtLoop(ts, v, k) ==
    IF v.fault \/ k >= ts.len THEN v
    ELSE LET ty == Cell(v.h, ts, k).Type
             w == CASE ty = DelimiterStatement -> SplitAtDelimiterStatement(ts, v, k)
                    [] ty = Delimiter -> SplitAtDelimiter(ts, v, k)
                    [] ty \in {Whitespace, Comment, Empty} -> v
                    [] OTHER -> SplitDefault(v)
         IN  SplitAtLoop(ts, w, k + 1)

\* func (ts Tokens) CmdSplitUnstripped() TokensList
CmdSplitUnstrippedAt(h, ts) ==
    LET v == SplitAtLoop(ts, SplitAtStart(h), 0)
        w == IF ~v.fault /\ v.start < ts.len
             THEN Wrapped(v, v.hasContents, v.needsWrap, v.needsUnwrap,
                          Sub(ts, v.start, ts.len), NilPtr)
             ELSE v
    IN  [h |-> w.h, tl |-> w.r, fault |-> w.fault]

\* CmdSplit's loop over r, from command number k (from 0)
RECURSIVE StripEachAt(_, _, _, _)
StripEachAt(h, r, stripped, k) ==
    IF k >= Len(r) THEN [h |-> h, tl |-> stripped, fault |-> FALSE]
    ELSE LET st == StripAt(h, r[k + 1]) IN
         IF st.fault THEN [h |-> st.h, tl |-> stripped, fault |-> TRUE]
         ELSE StripEachAt(st.h, r, IF st.sl.len > 0 THEN Append(stripped, st.sl) ELSE stripped,
                          k + 1)

\* func (ts Tokens) CmdSplit() TokensList
CmdSplitAt(h, ts) ==
    LET r == CmdSplitUnstrippedAt(h, ts) IN
    IF r.fault THEN r ELSE StripEachAt(r.h, r.tl, <<>>, 0)

RECURSIVE SumLen(_)
SumLen(tl) == IF Len(tl) = 0 THEN 0 ELSE Head(tl).len + SumLen(Tail(tl))

\* Join's inner loop over the tokens of command ts, number ci (from 0), from
\* index j, appending to rejoined
RECURSIVE JoinAtTokens(_, _, _, _, _, _)
JoinAtTokens(h, rejoined, ts, ci, last, j) ==
    IF j >= ts.len THEN [h |-> h, sl |-> rejoined]
    ELSE LET tk == Cell(h, ts, j) IN
         IF tk.Type = Empty THEN JoinAtTokens(h, rejoined, ts, ci, last, j + 1)
         ELSE IF tk.Split.a # 0
         THEN IF \/ Deref(h, tk.Split).Type = Empty /\ ci < last
                 \/ ci = last /\ j < ts.len - 1
              THEN JoinAtTokens(h, rejoined, ts, ci, last, j + 1)
              ELSE LET m == CopyAt(h, tk)
                       a == AppendCell(m.h, rejoined, [m.c EXCEPT !.Split = NilPtr])
                   IN  JoinAtTokens(a.h, a.sl, ts, ci, last, j + 1)
         ELSE LET a == AppendCell(h, rejoined, tk)
              IN  JoinAtTokens(a.h, a.sl, ts, ci, last, j + 1)

\* Join's outer loop, from command number ci
RECURSIVE JoinAtLoop(_, _, _, _, _)
JoinAtLoop(h, rejoined, tl, last, ci) ==
    IF ci >= Len(tl) THEN [h |-> h, sl |-> rejoined, fault |-> FALSE]
    ELSE LET ts == tl[ci + 1]
             m == JoinAtTokens(h, rejoined, ts, ci, last, 0)
             end == Cell(m.h, ts, ts.len - 1)
             a == IF end.Split.a # 0 /\ Deref(m.h, end.Split).Type # Empty
                  THEN AppendCell(m.h, m.sl, [Deref(m.h, end.Split) EXCEPT !.Split = NilPtr])
                  ELSE m
         IN  JoinAtLoop(a.h, a.sl, tl, last, ci + 1)

\* func (tl TokensList) Join() Tokens
JoinAt(h, tl0) ==
    LET tl == SelectSeq(tl0, LAMBDA ts : ts.len > 0) IN
    IF Len(tl) = 0 THEN LET m == Make(h, 0) IN [h |-> m.h, sl |-> m.sl, fault |-> FALSE]
    ELSE LET m == Make(h, SumLen(tl) + Len(tl) - 1)
             cmds == [k \in 1..Len(tl) |-> Cells(h, tl[k])]
         IN  JoinAtLoop(m.h, m.sl, tl, indexLastReal(cmds), 0)

-----------------------------------------------------------------------------
(* The inputs.  An input of a family is one of its prefixes followed by up  *)
(* to so many of its fragments, scanned under its config.                   *)

\* the longest run of fragments of an input of the scanner
MaxScanFrags == 4

RECURSIVE Flatten(_)
Flatten(q) == IF Len(q) = 0 THEN <<>> ELSE Head(q) \o Flatten(Tail(q))

SeqsUpTo(F, n) == UNION {[1..k -> F] : k \in 0..n}

Inputs(f, n) == {p \o Flatten(q) : p \in f.prefixes, q \in SeqsUpTo(f.frags, n)}

DelimiterWord == <<"D", "E", "L", "I", "M", "I", "T", "E", "R">>

\* DELIMITER directives, in every quoting, under MySQLConfig
DelimiterFamily ==
    [config |-> MySQLConfig,
     prefixes |-> {<<>>, DelimiterWord \o <<" ">>, DelimiterWord \o <<" ", "$", "\n">>},
     frags |-> {<<"$">>, <<"'">>, <<"\"">>, <<" ">>, <<"a">>, <<"\n">>, <<";">>,
                <<"d", "e", "l", "i", "m", "i", "t", "e", "r", " ">>}]

\* dollar quotes and dollar numbers, with and without a delimiter in force
DollarFamily ==
    [config |-> [PostgreSQLConfig EXCEPT !.NoticeDelimiter = TRUE],
     prefixes |-> {<<>>, DelimiterWord \o <<" ", ";", "\n">>},
     frags |-> {<<"$", "$">>, <<"$", "a", "$">>, <<"$">>, <<"a">>, <<";">>, <<"1">>, <<" ">>}]

\* q'[...]', n'...', :name and typed numbers
OracleFamily ==
    [config |-> OracleConfig,
     prefixes |-> {<<>>},
     frags |-> {<<"q">>, <<"'">>, <<"[">>, <<"]">>, <<"xC3", "xA9">>, <<":">>, <<".">>,
                <<"1">>}]

\* @words, #identifiers, [bracketed] and "quoted" names
SQLServerFamily ==
    [config |-> SQLServerConfig,
     prefixes |-> {<<>>},
     frags |-> {<<"@">>, <<"a">>, <<"#">>, <<"N">>, <<"'">>, <<"\"">>, <<"[">>, <<"]">>}]

\* x'..', b'..', 0x.., 0b.., # comments, ? and the backslash
MySQLFamily ==
    [config |-> MySQLConfig,
     prefixes |-> {<<>>},
     frags |-> {<<"0">>, <<"1">>, <<"x">>, <<"b">>, <<"'">>, <<"#">>, <<"\n">>, <<"?">>,
                <<"\\">>}]

\* numbers, comments and punctuation kept apart
NumberFamily ==
    [config |-> [Config0 EXCEPT !.SeparatePunctuation = TRUE, !.NoticeTypedNumbers = TRUE],
     prefixes |-> {<<>>},
     frags |-> {<<"1">>, <<".">>, <<"e">>, <<"d">>, <<"-">>, <<"/">>, <<"*">>,
                <<"xD9", "xA3">>}]

\* the word delimiter at the start of a line, after "\r" and in mid-line
LineStartFamily ==
    [config |-> MySQLConfig,
     prefixes |-> {<<>>, <<"\r">>, <<"\n">>, <<" ">>, <<"a", ";">>},
     frags |-> {<<"d", "e", "l", "i", "m", "i", "t", "e", "r">>, <<" ">>, <<"\r">>,
                <<"\n">>, <<"$">>, <<"a">>}]

\* the same inputs with NoticeDelimiter unset
UnnoticedFamily ==
    [config |-> [MySQLConfig EXCEPT !.NoticeDelimiter = FALSE],
     prefixes |-> {<<>>, <<"\n">>},
     frags |-> {<<"d", "e", "l", "i", "m", "i", "t", "e", "r">>, <<" ">>, <<"\r">>,
                <<"\n">>, <<"$">>, <<"a">>}]

\* the directive that names "$"
DollarDirective == DelimiterWord \o <<" ", "$", "\n">>

\* comments and literals after DELIMITER $
DelimitedFamily ==
    [config |-> MySQLConfig,
     prefixes |-> {DollarDirective},
     frags |-> {<<"$">>, <<"a">>, <<"'">>, <<"\\", "'">>, <<"\"">>, <<"#">>, <<"-", "-", " ">>,
                <<"/", "*">>, <<"*", "/">>, <<"\n">>}]

\* the directive that names ";"
SemicolonDirective == DelimiterWord \o <<" ", ";", "\n">>

\* commands, comments and literals after DELIMITER ;
SemicolonFamily ==
    [config |-> MySQLConfig,
     prefixes |-> {SemicolonDirective},
     frags |-> {<<";">>, <<"a">>, <<"'">>, <<"\\", "'">>, <<"#">>, <<"\n">>, <<" ">>}]

\* the word DELIMITER and a blank, with no terminator and with "$" in force,
\* followed by values that are and are not valid
AttemptFamily ==
    [config |-> MySQLConfig,
     prefixes |-> {DelimiterWord \o <<" ">>, DollarDirective \o DelimiterWord \o <<" ">>},
     frags |-> {<<"$">>, <<"'">>, <<"\\">>, <<" ">>, <<"\n">>, <<"a">>}]

\* the flags that each enable one kind of token
KindFlags ==
    {"NoticeQuestionMark", "NoticeDollarNumber", "NoticeColonWord", "NoticeAtWord",
     "NoticeIdentifiers", "NoticeHashComment"}

AllKindFlags == [f \in DOMAIN Config0 |-> IF f \in KindFlags THEN TRUE ELSE Config0[f]]

\* no flag set, every kind flag set, and every kind flag but one
FlagConfigs == {Config0, AllKindFlags} \cup {[AllKindFlags EXCEPT ![g] = FALSE] : g \in KindFlags}

\* the bytes that introduce the flagged kinds, under each of FlagConfigs
FlagFamilies ==
    {[config |-> cfg,
      prefixes |-> {<<>>},
      frags |-> {<<"?">>, <<"$">>, <<"1">>, <<":">>, <<"@">>, <<"#">>, <<"a">>}] : cfg \in FlagConfigs}

\* money constants under SQLServerConfig
MoneyFamily ==
    [config |-> SQLServerConfig,
     prefixes |-> {<<>>, <<"a", " ">>},
     frags |-> {<<"$">>, <<"1">>, <<"0">>, <<".">>, <<" ">>}]

\* semicolons among comments and literals, with no directive
PlainSemicolonFamily ==
    [config |-> MySQLConfig,
     prefixes |-> {<<>>},
     frags |-> {<<";">>, <<"a">>, <<"'">>, <<"\"">>, <<"#">>, <<"-", "-", " ">>, <<"/", "*">>,
                <<"*", "/">>, <<"\n">>, <<"\\", "'">>}]

\* directives with quoted and unquoted values, one after the other
ValuesFamily ==
    [config |-> MySQLConfig,
     prefixes |-> {DelimiterWord \o <<" ">>},
     frags |-> {<<"'", "a", "'">>, <<"\"", "b", "\"">>, <<"x">>, <<" ">>, <<"\n">>, <<"'">>}]

\* exponent markers with and without a digit after them, decimal and
\* hexadecimal, before the "#" that makes a word an Identifier
ExponentFamily ==
    [config |-> SQLServerConfig,
     prefixes |-> {<<>>},
     frags |-> {<<"1">>, <<"0">>, <<"e">>, <<"E">>, <<".">>, <<"#">>, <<"x">>}]

\* exponent markers while the delimiter in force is "e"
ExponentDelimiterFamily ==
    [config |-> MySQLConfig,
     prefixes |-> {DelimiterWord \o <<" ", "e", "\n">>},
     frags |-> {<<"1">>, <<"e">>, <<".">>, <<"0">>, <<" ">>}]

\* q'..' literals opened by a rune and by a bracket, with closers that a
\* quote follows and closers that none follows
OracleCloserFamily ==
    [config |-> OracleConfig,
     prefixes |-> {<<"q", "'", "xC3", "xA9">>, <<"q", "'", "[">>},
     frags |-> {<<"xC3", "xA9">>, <<"[">>, <<"]">>, <<"'">>, <<"1">>}]

\* punctuation side by side under SeparatePunctuation, with NoticeColonWord
\* added to MySQLConfig
SeparateFamily ==
    [config |-> [MySQLConfig EXCEPT !.NoticeColonWord = TRUE, !.SeparatePunctuation = TRUE],
     prefixes |-> {<<>>},
     frags |-> {<<":">>, <<"a">>, <<"(">>, <<",">>, <<"-">>, <<"xC2", "xAB">>, <<"?">>}]

ScanFamilies ==
    {SeparateFamily, OracleCloserFamily, ExponentFamily, ExponentDelimiterFamily, ValuesFamily, DelimiterFamily, DollarFamily, OracleFamily, SQLServerFamily, MySQLFamily, NumberFamily,
     LineStartFamily, UnnoticedFamily, DelimitedFamily, SemicolonFamily, AttemptFamily,
     MoneyFamily, PlainSemicolonFamily} \cup FlagFamilies

-----------------------------------------------------------------------------
(* The scanner, one action for each label of Tokenize *)

\* the scanner state held in the variables
Cur ==
    [s |-> s, config |-> config, pc |-> pc, i |-> i, stop |-> stop,
     tokenStart |-> tokenStart, tokens |-> tokens, firstDollarEnd |-> firstDollarEnd,
     runeDelim |-> runeDelim, charDelim |-> charDelim, endDelimiterWord |-> endDelimiterWord,
     delimiterBuffer |-> delimiterBuffer, delimiter |-> delimiter]

\* the variables take the scanner state n
Apply(n) ==
    /\ s' = n.s
    /\ config' = n.config
    /\ pc' = n.pc
    /\ i' = n.i
    /\ stop' = n.stop
    /\ tokenStart' = n.tokenStart
    /\ tokens' = n.tokens
    /\ firstDollarEnd' = n.firstDollarEnd
    /\ runeDelim' = n.runeDelim
    /\ charDelim' = n.charDelim
    /\ endDelimiterWord' = n.endDelimiterWord
    /\ delimiterBuffer' = n.delimiterBuffer
    /\ delimiter' = n.delimiter

\* Tokenize(str, cfg) has just been called
Called(str, cfg) ==
    LET n == ScanStart(str, cfg) IN
    /\ s = n.s
    /\ config = n.config
    /\ pc = n.pc
    /\ i = n.i
    /\ stop = n.stop
    /\ tokenStart = n.tokenStart
    /\ tokens = n.tokens
    /\ firstDollarEnd = n.firstDollarEnd
    /\ runeDelim = n.runeDelim
    /\ charDelim = n.charDelim
    /\ endDelimiterWord = n.endDelimiterWord
    /\ delimiterBuffer = n.delimiterBuffer
    /\ delimiter = n.delimiter
    /\ call = <<>>
    /\ ret = <<>>

InitScan == \E f \in ScanFamilies : \E str \in Inputs(f, MaxScanFrags) : Called(str, f.config)

\* the scanner goes on to the state n
Scanned(n) == Apply(n) /\ UNCHANGED <<call, ret>>

LabelTokenize == pc = "Tokenize" /\ Scanned(ScanTokenize(Cur))
LabelBaseState == pc = "BaseState" /\ Scanned(ScanBaseState(Cur))
LabelCStyleComment == pc = "CStyleComment" /\ Scanned(ScanCStyleComment(Cur))
LabelSingleQuoteString == pc = "SingleQuoteString" /\ Scanned(ScanSingleQuoteString(Cur))
LabelDoubleQuoteString == pc = "DoubleQuoteString" /\ Scanned(ScanDoubleQuoteString(Cur))
LabelSkipToEOL == pc = "SkipToEOL" /\ Scanned(ScanSkipToEOL(Cur))
LabelWord == pc = "Word" /\ Scanned(ScanWord(Cur))
LabelDelimiterStatementStart == pc = "DelimiterStatementStart" /\ Scanned(ScanDelimiterStatementStart(Cur))
LabelNotDelimiter == pc = "NotDelimiter" /\ Scanned(ScanNotDelimiter(Cur))
LabelDelimiterContinues == pc = "DelimiterContinues" /\ Scanned(ScanDelimiterContinues(Cur))
LabelDelimiterSingleQuote == pc = "DelimiterSingleQuote" /\ Scanned(ScanDelimiterSingleQuote(Cur))
LabelDelimiterDoubleQuote == pc = "DelimiterDoubleQuote" /\ Scanned(ScanDelimiterDoubleQuote(Cur))
LabelDelimiterUnquoted == pc = "DelimiterUnquoted" /\ Scanned(ScanDelimiterUnquoted(Cur))
LabelDelimiterIgnoring == pc = "DelimiterIgnoring" /\ Scanned(ScanDelimiterIgnoring(Cur))
LabelDelimiterFound == pc = "DelimiterFound" /\ Scanned(ScanDelimiterFound(Cur))
LabelDelimiterSearchStart == pc = "DelimiterSearchStart" /\ Scanned(ScanDelimiterSearchStart(Cur))
LabelColonWordStart == pc = "ColonWordStart" /\ Scanned(ScanColonWordStart(Cur))
LabelColonWord == pc = "ColonWord" /\ Scanned(ScanColonWord(Cur))
LabelIdentifier == pc = "Identifier" /\ Scanned(ScanIdentifier(Cur))
LabelAtWordStart == pc = "AtWordStart" /\ Scanned(ScanAtWordStart(Cur))
LabelAtWord == pc = "AtWord" /\ Scanned(ScanAtWord(Cur))
LabelPossibleNumber == pc = "PossibleNumber" /\ Scanned(ScanPossibleNumber(Cur))
LabelNumber == pc = "Number" /\ Scanned(ScanNumber(Cur))
LabelNumberNoDot == pc = "NumberNoDot" /\ Scanned(ScanNumberNoDot(Cur))
LabelExponent == pc = "Exponent" /\ Scanned(ScanExponent(Cur))
LabelExponentConfirmed == pc = "ExponentConfirmed" /\ Scanned(ScanExponentConfirmed(Cur))
LabelHexNumber == pc = "HexNumber" /\ Scanned(ScanHexNumber(Cur))
LabelBinaryNumber == pc = "BinaryNumber" /\ Scanned(ScanBinaryNumber(Cur))
LabelWhitespace == pc = "Whitespace" /\ Scanned(ScanWhitespace(Cur))
LabelQuotedHexNumber == pc = "QuotedHexNumber" /\ Scanned(ScanQuotedHexNumber(Cur))
LabelQuotedBinaryNumber == pc = "QuotedBinaryNumber" /\ Scanned(ScanQuotedBinaryNumber(Cur))
LabelDeliminatedString == pc = "DeliminatedString" /\ Scanned(ScanDeliminatedString(Cur))
LabelDeliminatedStringCharacter == pc = "DeliminatedStringCharacter" /\ Scanned(ScanDeliminatedStringCharacter(Cur))
LabelDeliminatedStringRune == pc = "DeliminatedStringRune" /\ Scanned(ScanDeliminatedStringRune(Cur))
LabelDollar == pc = "Dollar" /\ Scanned(ScanDollar(Cur))
LabelDone == pc = "Done" /\ Scanned(ScanDone(Cur))

NextScan ==
    \/ LabelTokenize \/ LabelBaseState \/ LabelCStyleComment \/ LabelSingleQuoteString
    \/ LabelDoubleQuoteString \/ LabelSkipToEOL \/ LabelWord
    \/ LabelDelimiterStatementStart \/ LabelNotDelimiter \/ LabelDelimiterContinues
    \/ LabelDelimiterSingleQuote \/ LabelDelimiterDoubleQuote \/ LabelDelimiterUnquoted
    \/ LabelDelimiterIgnoring \/ LabelDelimiterFound \/ LabelDelimiterSearchStart
    \/ LabelColonWordStart \/ LabelColonWord \/ LabelIdentifier \/ LabelAtWordStart
    \/ LabelAtWord \/ LabelPossibleNumber \/ LabelNumber \/ LabelNumberNoDot
    \/ LabelExponent \/ LabelExponentConfirmed \/ LabelHexNumber \/ LabelBinaryNumber
    \/ LabelWhitespace \/ LabelQuotedHexNumber \/ LabelQuotedBinaryNumber
    \/ LabelDeliminatedString \/ LabelDeliminatedStringCharacter
    \/ LabelDeliminatedStringRune \/ LabelDollar \/ LabelDone

SpecScan == InitScan /\ [][NextScan]_vars

-----------------------------------------------------------------------------
(* The transforms: Tokenize in one step, then Strip, Unstrip,               *)
(* CmdSplitUnstripped, CmdSplit and Join, each called on the result of the  *)
(* call before it.                                                          *)

\* the longest run of fragments of an input of the transforms
MaxOpsFrags == 4

\* the longest chain of calls
MaxCalls == 3

\* commands, delimiters, white space, comments and DELIMITER directives
OpsFamily ==
    [config |-> MySQLConfig,
     prefixes |-> {<<>>, DelimiterWord \o <<" ", "$", "\n">>},
     frags |-> {<<"a">>, <<"$">>, <<";">>, <<" ">>, <<"\n">>, <<"#", "\n">>,
                DelimiterWord \o <<" ", "$", "\n">>, DelimiterWord \o <<" ", ";", "\n">>}]

\* the input of the test case delimiter_set_at_end, and inputs around it
SetAtEndFamily ==
    [config |-> MySQLConfig,
     prefixes |-> {DelimiterWord \o <<" ", "$", "$", "\n", "A", "$", "$", "B", "$", "$",
                                      "C", "$", "$", "\n">>},
     frags |-> {DelimiterWord \o <<" ", ";", "\n">>, <<"A", "$", "$">>, <<"\n">>}]

\* the input of the test case extra_semicolons_preserved_or_not
ExtraSemicolonsInput ==
    <<"S", "E", "L", "E", "C", "T", " ", "1", ";", ";",
      "S", "E", "L", "E", "C", "T", " ", "2", ";", ";", ";">>

\* that input, and inputs around it
ExtraSemicolonsFamily ==
    [config |-> MySQLConfig,
     prefixes |-> {ExtraSemicolonsInput},
     frags |-> {<<";">>, <<" ">>}]

OpsFamilies == {OpsFamily, SetAtEndFamily, ExtraSemicolonsFamily}

InitOps == \E f \in OpsFamilies : \E str \in Inputs(f, MaxOpsFrags) : Called(str, f.config)

\* ts := Tokenize(s, config)
OpTokenize == pc = "Tokenize" /\ Scanned(Tokenize(s, config))

\* what the next call is made on: the scanned tokens, or the last result
Last == IF call = <<>> THEN Returns(tokens) ELSE ret[Len(ret)]

\* the last result is a TokensList
LastIsList == call # <<>> /\ call[Len(call)] \in {"CmdSplitUnstripped", "CmdSplit"}

\* the call name(...) returns r
Calls(name, r) ==
    /\ pc = "return"
    /\ Len(call) < MaxCalls
    /\ ~Last.fault
    /\ call' = Append(call, name)
    /\ ret' = Append(ret, r)
    /\ UNCHANGED <<s, config, pc, i, stop, tokenStart, tokens, firstDollarEnd, runeDelim,
                   charDelim, endDelimiterWord, delimiterBuffer, delimiter>>

OpStrip == ~LastIsList /\ Calls("Strip", Strip(Last.val))

OpUnstrip == ~LastIsList /\ Calls("Unstrip", Returns(Unstrip(Last.val)))

OpCmdSplitUnstripped == ~LastIsList /\ Calls("CmdSplitUnstripped", CmdSplitUnstripped(Last.val))

OpCmdSplit == ~LastIsList /\ Calls("CmdSplit", CmdSplit(Last.val))

OpJoin == LastIsList /\ Calls("Join", Join(Last.val))

NextOps ==
    \/ OpTokenize \/ OpStrip \/ OpUnstrip \/ OpCmdSplitUnstripped \/ OpCmdSplit \/ OpJoin

SpecOps == InitOps /\ [][NextOps]_vars

-----------------------------------------------------------------------------
(* Join on a TokensList that a caller has put together: up to MaxListLen   *)
(* commands of up to MaxCmdLen tokens.                                      *)

MaxListLen == 2

MaxCmdLen == 2

\* a Word; an Empty token; a Whitespace and a Word that carry a Delimiter as
\* Split; a closing directive as wrapIfNeeded makes it
GivenTokens ==
    {Token(Word, <<"a">>),
     empty,
     [Token(Whitespace, <<" ">>) EXCEPT !.Split = <<Token(Delimiter, <<"$">>)>>],
     [Token(Word, <<"a">>) EXCEPT !.Split = <<Token(Delimiter, <<";">>)>>],
     [Token(DelimiterStatement, <<"\n">> \o DelimiterWord \o <<" ", ";", "\n">>)
         EXCEPT !.Split = <<empty>>]}

GivenCommands == SeqsUpTo(GivenTokens, MaxCmdLen)

\* tl := TokensList{...}
InitJoin ==
    \E n \in 0..MaxListLen : \E tl \in [1..n -> GivenCommands] :
        /\ s = <<>> /\ config = MySQLConfig /\ pc = "return"
        /\ i = 0 /\ stop = 0 /\ tokenStart = 0 /\ tokens = <<>>
        /\ firstDollarEnd = 0 /\ runeDelim = "" /\ charDelim = ""
        /\ endDelimiterWord = 0 /\ delimiterBuffer = <<>> /\ delimiter = <<>>
        /\ call = <<"TokensList">>
        /\ ret = <<Returns(tl)>>

\* tl.Join()
OpJoinGiven == call = <<"TokensList">> /\ Calls("Join", Join(Last.val))

NextJoin == OpJoinGiven

SpecJoin == InitJoin /\ [][NextJoin]_vars

-----------------------------------------------------------------------------
(* Properties of Tokenize, stated over SpecScan *)

\* C1: when Tokenize returns, the Text of its tokens, concatenated in order,
\* is the input s, for every input and every config.
RoundTrip == pc = "return" => String(tokens) = s

\* C2: Tokenize never panics: neither panic("empty delmiter") at Done nor an
\* index or slice out of the bounds of s.
NeverFaults == pc # "panic"

\* Done has met stop < len(s), found the delimiter not empty and emitted it
DoneEmittedDelimiter ==
    /\ pc = "DelimiterSearchStart"
    /\ stop < Len(s)
    /\ Len(tokens) > 0
    /\ tokens[Len(tokens)].Type = Delimiter

\* C4: Tokenize terminates on every input: between two visits to the same
\* label the cursor has advanced, so no loop of the scanner repeats forever
\* with its state unchanged.
ScanLoopsAdvance == pc # "hang"

\* C5: in the sequence Tokenize returns, two adjacent tokens have the same
\* kind only if it is Number, QuestionMark, DollarNumber, ColonWord, Delimiter
\* or DelimiterStatement, or Punctuation with SeparatePunctuation set.
AdjacentKindsDiffer ==
    pc = "return" =>
        \A k \in 1..(Len(tokens) - 1) :
            tokens[k].Type = tokens[k + 1].Type =>
                \/ tokens[k].Type \in {Number, QuestionMark, DollarNumber, ColonWord,
                                       Delimiter, DelimiterStatement}
                \/ tokens[k].Type = Punctuation /\ config.SeparatePunctuation

\* Tokenize has returned a token made by merging two Punctuation bytes, next
\* to two Delimiter tokens that stay apart
MergedAndApart ==
    /\ pc = "return"
    /\ \E k \in 1..Len(tokens) : tokens[k].Type = Punctuation /\ Len(tokens[k].Text) >= 2
    /\ \E k \in 1..(Len(tokens) - 1) :
           tokens[k].Type = Delimiter /\ tokens[k + 1].Type = Delimiter

\* C21: every token Tokenize returns has a Text that is not empty, a nil
\* Strip and a nil Split, and a kind that is one of the scanner's kinds, never
\* Empty.
ScannedTokensPlain ==
    pc = "return" =>
        \A k \in 1..Len(tokens) :
            /\ Len(tokens[k].Text) > 0
            /\ tokens[k].Strip = <<>>
            /\ tokens[k].Split = <<>>
            /\ tokens[k].Type # Empty

\* Tokenize has returned three tokens or more: a DELIMITER statement, and a
\* Delimiter that Done emitted after it
ReturnedDelimitedTokens ==
    /\ pc = "return"
    /\ Len(tokens) >= 3
    /\ tokens[1].Type = DelimiterStatement
    /\ \E k \in 2..Len(tokens) : tokens[k].Type = Delimiter

\* C22: a kind tied to a flag of Config is emitted only with that flag set:
\* QuestionMark with NoticeQuestionMark, DollarNumber with NoticeDollarNumber,
\* ColonWord with NoticeColonWord, AtWord with NoticeAtWord, Identifier with
\* NoticeIdentifiers, DelimiterStatement with NoticeDelimiter, and a Comment
\* that begins with "#" with NoticeHashComment.
KindsNeedFlags ==
    \A k \in 1..Len(tokens) :
        LET t == tokens[k] IN
        /\ t.Type = QuestionMark => config.NoticeQuestionMark
        /\ t.Type = DollarNumber => config.NoticeDollarNumber
        /\ t.Type = ColonWord => config.NoticeColonWord
        /\ t.Type = AtWord => config.NoticeAtWord
        /\ t.Type = Identifier => config.NoticeIdentifiers
        /\ t.Type = DelimiterStatement => config.NoticeDelimiter
        /\ (t.Type = Comment /\ Len(t.Text) > 0 /\ t.Text[1] = "#") => config.NoticeHashComment

\* Tokenize has returned, with NoticeIdentifiers unset and every other kind
\* flag set, the tokens of an input that has "@" before "#": an AtWord or a
\* Punctuation "@", a Comment from "#", and no Identifier
ReturnedWithoutIdentifiers ==
    /\ pc = "return"
    /\ ~config.NoticeIdentifiers
    /\ config.NoticeAtWord /\ config.NoticeHashComment
    /\ Len(s) >= 2 /\ s[1] = "@" /\ s[2] = "#"
    /\ \E k \in 1..Len(tokens) : tokens[k].Type = Comment

\* a money constant: "$", digits, and at most one "." followed by digits
IsMoneyConstant(str) ==
    /\ Len(str) >= 2
    /\ str[1] = "$"
    /\ str[2] \in AsciiDigits
    /\ str[Len(str)] \in AsciiDigits
    /\ \A k \in 2..Len(str) : str[k] \in AsciiDigits \cup {"."}
    /\ Cardinality({k \in 2..Len(str) : str[k] = "."}) <= 1

\* C23: with NoticeMoneyConstants set, as in SQLServerConfig, a money constant
\* such as $10 or $1.0 is returned as one DollarNumber token.
MoneyIsDollarNumber ==
    (pc = "return" /\ config.NoticeMoneyConstants /\ IsMoneyConstant(s)) =>
        tokens = <<Token(DollarNumber, s)>>

\* C24: scanning is a fixed point: the tokens of the rendering of the tokens
\* Tokenize returns for s are, token for token, the tokens returned for s.
RescanFixedPoint ==
    pc = "return" =>
        LET again == Tokenize(String(tokens), config) IN
        again.pc = "return" /\ again.tokens = tokens

\* Tokenize has returned tokens that do not render its input, a literal that
\* runs over the delimiter and no token for the text after it, and the scan
\* of their rendering returns the same tokens
RescannedShorterText ==
    /\ pc = "return"
    /\ Len(tokens) >= 2
    /\ String(tokens) # s
    /\ Tokenize(String(tokens), config).tokens = tokens

-----------------------------------------------------------------------------
(* Properties of the DELIMITER directive, stated over SpecScan *)

\* the offset in s of token number k, when the tokens before it render s up to it
RECURSIVE Offset(_, _)
Offset(ts, k) == IF k <= 1 THEN 0 ELSE Offset(ts, k - 1) + Len(ts[k - 1].Text)

\* white space other than the newline
BlankBytes == SpaceBytes \ {"\n"}

Delimited == Slice(s, Len(DollarDirective), Len(s))

\* the scan of str alone, with no directive in force
Alone(str) == Tokenize(str, config).tokens

\* offset o of str lies in a Comment or a Literal of the scan of str alone
InCommentOrLiteral(str, o) ==
    \E j \in 1..Len(Alone(str)) :
        /\ Alone(str)[j].Type \in {Comment, Literal}
        /\ Offset(Alone(str), j) <= o
        /\ o < Offset(Alone(str), j) + Len(Alone(str)[j].Text)

\* token number k is the Delimiter "$" at offset o of the text after the directive
DelimiterTokenAt(k, o) ==
    /\ tokens[k].Type = Delimiter
    /\ tokens[k].Text = <<"$">>
    /\ Offset(tokens, k) = Len(DollarDirective) + o

\* C18: after DELIMITER $ a "$" inside a comment or a quoted literal is not
\* emitted as a Delimiter, and every "$" outside comments and literals is
\* emitted as a Delimiter with the text "$".
DelimiterOutsideCommentsAndLiterals ==
    (/\ pc = "return"
     /\ config.NoticeDelimiter /\ config.NoticeHashComment
     /\ Len(s) >= Len(DollarDirective)
     /\ Slice(s, 0, Len(DollarDirective)) = DollarDirective
     /\ \A k \in 2..Len(tokens) : tokens[k].Type # DelimiterStatement) =>
        \A o \in 0..(Len(Delimited) - 1) :
            At(Delimited, o) = "$" =>
                (InCommentOrLiteral(Delimited, o) <=> ~\E k \in 1..Len(tokens) : DelimiterTokenAt(k, o))

\* C19: after DELIMITER ; the tokens of the remaining text are those of
\* Tokenize on that text alone.
SemicolonDirectiveResets ==
    (/\ pc = "return"
     /\ config.NoticeDelimiter
     /\ Len(s) >= Len(SemicolonDirective)
     /\ Slice(s, 0, Len(SemicolonDirective)) = SemicolonDirective) =>
        /\ tokens # <<>>
        /\ tokens[1].Type = DelimiterStatement
        /\ tokens[1].Text = SemicolonDirective
        /\ Tail(tokens) = Alone(Slice(s, Len(SemicolonDirective), Len(s)))

\* the least k with str[k] in set, or Len(str) + 1
FirstIndex(str, set) ==
    LET ks == {k \in 1..Len(str) : str[k] \in set}
    IN  IF ks = {} THEN Len(str) + 1 ELSE CHOOSE k \in ks : \A h \in ks : k <= h

\* the text rest after the word DELIMITER has no valid value ended by a
\* newline: no newline at all, blanks only before the newline, a backslash in
\* the value, or a newline inside a quoted value
NoValidValue(rest) ==
    LET nl == FirstIndex(rest, {"\n"})
        line == SubSeq(rest, 1, nl - 1)
        vs == FirstIndex(line, {line[k] : k \in 1..Len(line)} \ DelimiterBlankBytes)
        quoted == vs <= Len(line) /\ line[vs] \in {"'", "\""}
    IN  \/ nl > Len(rest)
        \/ vs > Len(line)
        \/ /\ vs <= Len(line) /\ ~quoted
           /\ \E k \in vs..Len(line) :
                  /\ line[k] = "\\"
                  /\ \A j \in vs..k : line[j] \notin {" ", "\t", "BS", "\r"}
        \/ /\ quoted
           /\ \E k \in (vs + 1)..Len(line) :
                  /\ line[k] = "\\"
                  /\ \A j \in (vs + 1)..k : line[j] # line[vs]
        \/ /\ quoted
           /\ \A j \in (vs + 1)..Len(line) : line[j] # line[vs]

\* s has the word DELIMITER and a blank at offset a, at the start of a line
AttemptAt(a) ==
    /\ a + 10 <= Len(s)
    /\ Slice(s, a, a + 10) = DelimiterWord \o <<" ">>
    /\ a = 0 \/ Slice(s, 0, a) = DollarDirective

\* s with another word of the same length at offset a
OtherWord == <<"X", "E", "L", "I", "M", "I", "T", "E", "R">>

WithOtherWord(a) == Slice(s, 0, a) \o OtherWord \o Slice(s, a + 9, Len(s))

\* C20: a DELIMITER attempt with no valid value ended by a newline makes no
\* DelimiterStatement: the word is emitted as a Word and the scan goes on
\* after the word with the terminator and stop it had, that is, as it does
\* for any other word in that place.
FailedDirectiveIsWord ==
    pc = "return" =>
        \A a \in {0, Len(DollarDirective)} :
            (AttemptAt(a) /\ NoValidValue(Slice(s, a + 9, Len(s)))) =>
                /\ \E k \in 1..Len(tokens) :
                       /\ Offset(tokens, k) = a
                       /\ tokens[k] = Token(Word, DelimiterWord)
                /\ Tokenize(WithOtherWord(a), config).tokens
                       = [k \in 1..Len(tokens) |->
                              IF Offset(tokens, k) = a
                              THEN Token(Word, OtherWord) ELSE tokens[k]]

\* with "$" in force, an attempt with a backslash in its value or a newline
\* in its quoted value was given up, and the scan went on to emit tokens
FailedAttemptUnderDelimiter ==
    /\ pc = "return"
    /\ AttemptAt(Len(DollarDirective))
    /\ NoValidValue(Slice(s, Len(DollarDirective) + 9, Len(s)))
    /\ Len(s) > Len(DollarDirective) + 10
    /\ At(s, Len(DollarDirective) + 10) \in {"\\", "'"}
    /\ \E k \in 1..Len(s) : k > Len(DollarDirective) + 10 /\ s[k] = "\n"
    /\ Len(tokens) >= 4
    /\ tokens[2] = Token(Word, DelimiterWord)

-----------------------------------------------------------------------------
(* Properties of the statement terminator, stated over SpecScan *)

\* str has the byte c
HasByte(str, c) == \E j \in 1..Len(str) : str[j] = c

\* token number k of ts is the text of s at its offset and covers offset o
Covers(ts, k, o) ==
    /\ Offset(ts, k) <= o
    /\ o < Offset(ts, k) + Len(ts[k].Text)
    /\ ts[k].Text = Slice(s, Offset(ts, k), Offset(ts, k) + Len(ts[k].Text))

LastDirective(ts) ==
    LET ks == {k \in 1..Len(ts) : ts[k].Type = DelimiterStatement}
    IN  IF ks = {} THEN 0 ELSE CHOOSE k \in ks : \A h \in ks : h <= k

\* C29: while a delimiter other than ";" is in force, a token emitted since
\* the directive that has a ";" is a Comment, a Literal, a Punctuation or the
\* delimiter itself, every Delimiter emitted since the directive has the
\* delimiter as its text, and when Tokenize returns every ";" after the
\* directive lies in such a token.
CustomDelimiterOnly ==
    (config.NoticeDelimiter /\ delimiter \notin {<<>>, <<";">>} /\ pc \notin {"panic", "hang"}) =>
        LET d == LastDirective(tokens) IN
        /\ d > 0
        /\ \A k \in (d + 1)..Len(tokens) :
               /\ tokens[k].Type = Delimiter => tokens[k].Text = delimiter
               /\ (HasByte(tokens[k].Text, ";") /\ tokens[k].Type \notin {Comment, Literal}) =>
                      \/ tokens[k].Type = Punctuation
                      \/ tokens[k] = Token(Delimiter, delimiter)
        /\ pc = "return" =>
               \A o \in (Offset(tokens, d + 1))..(Len(s) - 1) :
                   At(s, o) = ";" => \E k \in (d + 1)..Len(tokens) : Covers(tokens, k, o)

\* with "$" in force a ";" was made a Punctuation and a "$" a Delimiter
SemicolonUnderDollar ==
    /\ pc = "return"
    /\ delimiter = <<"$">>
    /\ \E k \in 2..Len(tokens) : tokens[k] = Token(Punctuation, <<";">>)
    /\ \E k \in 2..Len(tokens) : tokens[k] = Token(Delimiter, <<"$">>)

\* the bytes that follow the delimiter that ends s
NextBytes == {" ", "a", ";", "\n", "$"}

\* s ends with the delimiter in force, after the last directive, and the
\* scan has put none of its bytes in a Comment, a Literal or a Delimiter
EndsWithDelimiter ==
    LET d == LastDirective(tokens)
        p == Len(s) - Len(delimiter)
    IN  /\ pc = "return"
        /\ config.NoticeDelimiter
        /\ delimiter # <<>>
        /\ d > 0
        /\ p >= Offset(tokens, d + 1)
        /\ Slice(s, p, Len(s)) = delimiter
        /\ \A o \in p..(Len(s) - 1) :
               \E k \in (d + 1)..Len(tokens) :
                   /\ Covers(tokens, k, o)
                   /\ tokens[k].Type \notin {Comment, Literal, Delimiter}

\* C30: the delimiter in force that ends the input is not emitted as a
\* Delimiter, and with one more byte after it (that does not make a directive
\* of it) the same occurrence is emitted as a Delimiter.
TerminatorAtEndOfInput ==
    EndsWithDelimiter =>
        LET p == Len(s) - Len(delimiter) IN
        /\ \A k \in 1..Len(tokens) :
               tokens[k].Type = Delimiter => Offset(tokens, k) # p
        /\ \A b \in NextBytes :
               LET again == Tokenize(s \o <<b>>, config) IN
               (again.pc = "return" /\ LastDirective(again.tokens) = LastDirective(tokens)) =>
                   \E k \in 1..Len(again.tokens) :
                       /\ again.tokens[k] = Token(Delimiter, delimiter)
                       /\ Offset(again.tokens, k) = p

\* The same on inputs that have no "#", no backslash and no "/", where the
\* forward search and the scanner agree on what a comment and a literal are.
TerminatorAtEndOfPlainInput ==
    (~HasByte(s, "#") /\ ~HasByte(s, "\\") /\ ~HasByte(s, "/")) => TerminatorAtEndOfInput

\* The first half alone: with a delimiter in force, no Delimiter token ends
\* where the input ends.
NoDelimiterAtEndOfInput ==
    (pc = "return" /\ config.NoticeDelimiter /\ delimiter # <<>>) =>
        \A k \in 1..Len(tokens) :
            tokens[k].Type = Delimiter => Offset(tokens, k) + Len(tokens[k].Text) < Len(s)

-----------------------------------------------------------------------------
(* Properties of the text and the value of a directive, stated over SpecScan *)

\* the least index of t from j on whose byte is not in set, Len(t) + 1 when none
RECURSIVE SkipBytes(_, _, _)
SkipBytes(t, j, set) ==
    IF j <= Len(t) /\ t[j] \in set THEN SkipBytes(t, j + 1, set) ELSE j

\* the quoted value of t whose opening quote q is at index j - 1: val is the
\* value, with a doubled quote read as one, next the index after its closer
RECURSIVE QuotedRun(_, _, _)
QuotedRun(t, j, q) ==
    IF j > Len(t) THEN [val |-> <<>>, next |-> j]
    ELSE IF t[j] = q
    THEN IF j + 1 <= Len(t) /\ t[j + 1] = q
         THEN LET r == QuotedRun(t, j + 2, q) IN [val |-> <<q>> \o r.val, next |-> r.next]
         ELSE [val |-> <<>>, next |-> j + 1]
    ELSE LET r == QuotedRun(t, j + 1, q) IN [val |-> <<t[j]>> \o r.val, next |-> r.next]

\* the unquoted value of t that starts at index j
UnquotedRun(t, j) ==
    SubSeq(t, j, SkipBytes(t, j, {t[k] : k \in 1..Len(t)} \ {" ", "\t", "BS", "\r", "\n"}) - 1)

\* the quoted values of t from index j on that follow one another with
\* nothing but blanks between them, put together
RECURSIVE QuotedValues(_, _)
QuotedValues(t, j) ==
    IF j <= Len(t) /\ t[j] \in {"'", "\""}
    THEN LET r == QuotedRun(t, j + 1, t[j])
         IN  r.val \o QuotedValues(t, SkipBytes(t, r.next, DelimiterBlankBytes))
    ELSE <<>>

\* the first value of the directive text t
FirstValue(t) ==
    LET j == SkipBytes(t, 10, DelimiterBlankBytes) IN
    IF j > Len(t) THEN <<>>
    ELSE IF t[j] \in {"'", "\""} THEN QuotedRun(t, j + 1, t[j]).val
    ELSE UnquotedRun(t, j)

\* the value of the directive text t: its first value, and the quoted values
\* that follow a quoted first value
DirectiveValue(t) ==
    LET j == SkipBytes(t, 10, DelimiterBlankBytes) IN
    IF j > Len(t) THEN <<>>
    ELSE IF t[j] \in {"'", "\""} THEN QuotedValues(t, j)
    ELSE UnquotedRun(t, j)

\* a DelimiterStatement starts with the word delimiter, is the text of s from
\* there through the first newline, and has no other newline
DirectiveText ==
    \A k \in 1..Len(tokens) :
        tokens[k].Type = DelimiterStatement =>
            LET t == tokens[k].Text
                p == Offset(tokens, k)
            IN  /\ Len(t) >= 10
                /\ EqualFoldDelimiter(SubSeq(t, 1, 9))
                /\ t[Len(t)] = "\n"
                /\ \A j \in 1..(Len(t) - 1) : t[j] # "\n"
                /\ Slice(s, p, p + Len(t)) = t

\* The delimiter in force is the first value of the last directive.
DirectiveSetsFirstValue ==
    (config.NoticeDelimiter /\ LastDirective(tokens) > 0) =>
        /\ DirectiveText
        /\ delimiter = FirstValue(tokens[LastDirective(tokens)].Text)

\* C31: a DelimiterStatement starts with the word delimiter in any case,
\* ends with its only newline and spans the text of s up to it, trailing
\* content included; the delimiter in force is the value of the last
\* directive: the first value when that is unquoted, and a quoted first value
\* with the quoted values that directly follow it.
DirectiveSetsValue ==
    (config.NoticeDelimiter /\ LastDirective(tokens) > 0) =>
        /\ DirectiveText
        /\ delimiter = DirectiveValue(tokens[LastDirective(tokens)].Text)

\* a directive with a second value after its unquoted value
DirectiveWithTrailingValue ==
    /\ pc = "return"
    /\ LastDirective(tokens) = 1
    /\ delimiter = <<"x">>
    /\ tokens[1].Text[11] = "x"
    /\ HasByte(tokens[1].Text, "'")

\* a directive with two quoted values
DirectiveWithTwoQuotedValues ==
    /\ pc = "return"
    /\ LastDirective(tokens) = 1
    /\ delimiter = <<"a", "b">>

\* the line of s that starts at offset a, its newline included
LineAt(a) == SubSeq(s, a + 1, a + FirstIndex(Slice(s, a, Len(s)), {"\n"}))

\* the quoted value of t whose opening quote is at index j is closed before
\* the end of t and has no backslash, and so are the quoted values that
\* directly follow it
RECURSIVE QuotedOK(_, _)
QuotedOK(t, j) ==
    LET r == QuotedRun(t, j + 1, t[j])
        n == SkipBytes(t, r.next, DelimiterBlankBytes)
    IN  /\ r.next <= Len(t)
        /\ ~HasByte(SubSeq(t, j + 1, r.next - 1), "\\")
        /\ (n <= Len(t) /\ t[n] \in {"'", "\""}) => QuotedOK(t, n)

\* t is the word delimiter, blanks, a value that is quoted and closed or
\* unquoted, without a backslash, then anything up to the newline that ends t
WellFormedLine(t) ==
    LET j == SkipBytes(t, 10, DelimiterBlankBytes) IN
    /\ j < Len(t)
    /\ IF t[j] \in {"'", "\""} THEN QuotedOK(t, j)
       ELSE ~HasByte(UnquotedRun(t, j), "\\")

\* s has a well-formed directive at offset a, at the start of a line
WellFormedAt(a) ==
    /\ AttemptAt(a)
    /\ HasByte(Slice(s, a, Len(s)), "\n")
    /\ WellFormedLine(LineAt(a))

\* str has sub somewhere
HasSub(str, sub) == \E k \in 0..(Len(str) - Len(sub)) : HasPrefixAt(str, k, sub)

\* token number k is the directive at offset a and its value is in force
\* until the next directive
RecognizedAt(k, a) ==
    /\ Offset(tokens, k) = a
    /\ tokens[k].Type = DelimiterStatement
    /\ tokens[k].Text = LineAt(a)
    /\ LastDirective(tokens) = k => delimiter = DirectiveValue(LineAt(a))

\* C32: a well-formed directive at the start of a line is made a
\* DelimiterStatement and its value replaces the delimiter in force, at the
\* start of the input and after the directive DELIMITER $ alike.
DirectiveAlwaysRecognized ==
    pc = "return" =>
        \A a \in {0, Len(DollarDirective)} :
            WellFormedAt(a) => \E k \in 1..Len(tokens) : RecognizedAt(k, a)

\* The same for the directives whose line does not have the delimiter that
\* is in force where the line starts.
DirectiveRecognizedApart ==
    pc = "return" =>
        \A a \in {0, Len(DollarDirective)} :
            (WellFormedAt(a) /\ (a > 0 => ~HasByte(LineAt(a), "$"))) =>
                \E k \in 1..Len(tokens) : RecognizedAt(k, a)

\* a second directive, with a value other than "$", was made a
\* DelimiterStatement while "$" was in force
SecondDirectiveRecognized ==
    /\ pc = "return"
    /\ WellFormedAt(Len(DollarDirective))
    /\ LastDirective(tokens) = 2
    /\ delimiter # <<>>

-----------------------------------------------------------------------------
(* Properties of quoted literals and comments, stated over SpecScan *)

\* the index of the quote q that closes the literal of t whose text goes on
\* at index j, where a backslash takes the byte after it; 0 when none does
RECURSIVE QuotedEnd(_, _, _)
QuotedEnd(t, j, q) ==
    IF j > Len(t) THEN 0
    ELSE IF t[j] = q THEN j
    ELSE IF t[j] = "\\" THEN QuotedEnd(t, j + 2, q)
    ELSE QuotedEnd(t, j + 1, q)

\* t from index j on is quoted literals, each closed by its quote, the last
\* one left open only if open says so; what follows them is not judged
RECURSIVE QuotedLiterals(_, _, _)
QuotedLiterals(t, j, open) ==
    IF j > Len(t) \/ t[j] \notin {"'", "\""} THEN TRUE
    ELSE LET e == QuotedEnd(t, j + 1, t[j]) IN
         IF e = 0 THEN open ELSE QuotedLiterals(t, e + 1, open)

\* token number k of ts ends where s ends
EndsInput(ts, k) == Offset(ts, k) + Len(ts[k].Text) = Len(s)

\* C33: a Literal that starts with a quote is made of literals that end at
\* the first quote no backslash has taken, or that run to the end of the
\* input: a backslash takes the byte after it, a quote included, and a
\* backslash that is the last byte of the input ends the Literal there.
BackslashConsumes ==
    pc = "return" =>
        \A k \in 1..Len(tokens) :
            (tokens[k].Type = Literal /\ tokens[k].Text[1] \in {"'", "\""}) =>
                QuotedLiterals(tokens[k].Text, 1, EndsInput(tokens, k))

\* The same while no delimiter is in force.
BackslashConsumesUndelimited == delimiter = <<>> => BackslashConsumes

\* a Literal with a quote taken by a backslash, closed by a later quote
EscapedQuoteInLiteral ==
    /\ pc = "return"
    /\ delimiter = <<>>
    /\ \E k \in 1..Len(tokens) :
           /\ tokens[k].Type = Literal
           /\ \E j \in 2..(Len(tokens[k].Text) - 2) :
                  tokens[k].Text[j] = "\\" /\ tokens[k].Text[j + 1] = tokens[k].Text[1]
           /\ ~EndsInput(tokens, k)

\* the index of the "/" of the first "*/" of t whose "*" is at index j or
\* later; 0 when there is none
RECURSIVE CommentEnd(_, _)
CommentEnd(t, j) ==
    IF j + 1 > Len(t) THEN 0
    ELSE IF t[j] = "*" /\ t[j + 1] = "/" THEN j + 1
    ELSE CommentEnd(t, j + 1)

\* t from index j on is C-style comments, each closed by "*/" (the "*" of
\* the opener may be that of the closer, as CStyleComment has it), the last
\* one left open only if open says so; what follows them is not judged
RECURSIVE CStyleComments(_, _, _)
CStyleComments(t, j, open) ==
    IF j + 1 > Len(t) \/ t[j] # "/" \/ t[j + 1] # "*" THEN TRUE
    ELSE LET e == CommentEnd(t, j + 1) IN
         IF e = 0 THEN open ELSE CStyleComments(t, e + 1, open)

\* C34: a quoted string or a C-style comment that is not closed runs to the
\* end of the input and is in the last token, a Literal or a Comment: a token
\* that does not end the input, or is not the last, has every quoted string
\* and every C-style comment in it closed.
UnterminatedRunsToEnd ==
    pc = "return" =>
        \A k \in 1..Len(tokens) :
            LET t == tokens[k].Text
                open == EndsInput(tokens, k) /\ k = Len(tokens)
            IN  /\ (tokens[k].Type = Literal /\ t[1] \in {"'", "\""}) => QuotedLiterals(t, 1, open)
                /\ (tokens[k].Type = Comment /\ t[1] = "/") => CStyleComments(t, 1, open)

\* The same while no delimiter is in force.
UnterminatedRunsToEndUndelimited == delimiter = <<>> => UnterminatedRunsToEnd

\* an open comment after a closed one, in one Comment token
OpenCommentLast ==
    /\ pc = "return"
    /\ delimiter = <<>>
    /\ Len(tokens) >= 2
    /\ tokens[Len(tokens)].Type = Comment
    /\ tokens[Len(tokens)].Text[1] = "/"
    /\ ~CStyleComments(tokens[Len(tokens)].Text, 1, FALSE)
    /\ HasSub(tokens[Len(tokens)].Text, <<"*", "/">>)

-----------------------------------------------------------------------------
(* Properties of numbers, stated over SpecScan *)

\* t has a digit at index j: an ASCII digit or a rune unicode.IsDigit accepts
DigitAt(t, j) ==
    /\ j <= Len(t)
    /\ IsDigit(DecodeRune(t, j - 1).r)

\* t is written in hexadecimal or binary, where "e" is a digit: 0x.. 0b.. x'..' b'..'
RadixNumber(t) ==
    /\ Len(t) >= 2
    /\ \/ t[1] = "0" /\ t[2] \in {"x", "b"}
       \/ t[1] \in {"x", "X", "b", "B"} /\ t[2] = "'"

\* token number k of ts is a decimal Number
DecimalNumber(ts, k) == ts[k].Type = Number /\ ~RadixNumber(ts[k].Text)

\* in every Number every "e" or "E" is followed by a digit, and when
\* Tokenize returns, a Number that an "e" or "E" follows in s is followed by
\* a Word that starts with it
ExponentMarkerStartsWord ==
    \A k \in 1..Len(tokens) :
        tokens[k].Type = Number =>
            /\ \A j \in 1..Len(tokens[k].Text) :
                   tokens[k].Text[j] \in {"e", "E"} => DigitAt(tokens[k].Text, j + 1)
            /\ LET o == Offset(tokens, k) + Len(tokens[k].Text) IN
               (pc = "return" /\ o < Len(s) /\ At(s, o) \in {"e", "E"}) =>
                   /\ k < Len(tokens)
                   /\ tokens[k + 1].Type = Word
                   /\ tokens[k + 1].Text[1] = At(s, o)

\* C35: in a decimal Number every "e" or "E" is followed by a digit, and
\* when Tokenize returns, a decimal Number that an "e" or "E" follows in s
\* ends before it and the next token starts with it: a Word, the Identifier
\* that a word with "#", "@" or "$" is under NoticeIdentifiers, or the
\* Delimiter when the delimiter in force starts there.
ExponentMarkerNeedsDigit ==
    \A k \in 1..Len(tokens) :
        DecimalNumber(tokens, k) =>
            /\ \A j \in 1..Len(tokens[k].Text) :
                   tokens[k].Text[j] \in {"e", "E"} => DigitAt(tokens[k].Text, j + 1)
            /\ LET o == Offset(tokens, k) + Len(tokens[k].Text) IN
               (pc = "return" /\ o < Len(s) /\ At(s, o) \in {"e", "E"}) =>
                   /\ k < Len(tokens)
                   /\ tokens[k + 1].Text[1] = At(s, o)
                   /\ \/ tokens[k + 1].Type = Word
                      \/ tokens[k + 1].Type = Identifier /\ config.NoticeIdentifiers
                      \/ tokens[k + 1] = Token(Delimiter, delimiter)

\* a Number with an exponent, and after it a marker with no digit that
\* starts a Word
MarkerStartsWord ==
    /\ pc = "return"
    /\ \E k \in 1..(Len(tokens) - 1) :
           /\ DecimalNumber(tokens, k)
           /\ HasByte(tokens[k].Text, "e")
           /\ tokens[k + 1].Type = Word
           /\ tokens[k + 1].Text[1] = "e"

\* a marker with no digit after a decimal point, and one before "#"
MarkerStartsIdentifier ==
    /\ pc = "return"
    /\ \E k \in 1..(Len(tokens) - 1) :
           /\ DecimalNumber(tokens, k)
           /\ HasByte(tokens[k].Text, ".")
           /\ tokens[k + 1].Type = Identifier
           /\ tokens[k + 1].Text[1] = "e"

-----------------------------------------------------------------------------
(* Properties of dollar-quoted literals, stated over the steps of SpecScan *)

\* the offset after the letters that start at offset k of str
RECURSIVE LettersEnd(_, _)
LettersEnd(str, k) ==
    LET d == DecodeRune(str, k) IN
    IF k < Len(str) /\ IsLetter(d.r) THEN LettersEnd(str, k + d.w) ELSE k

\* the opener of a dollar-quoted literal at offset p of str, where a "$" is:
\* "$$", or "$", letters and "$"; the empty sequence when there is none
DollarOpener(str, p) ==
    IF p + 1 < Len(str) /\ At(str, p + 1) = "$" THEN <<"$", "$">>
    ELSE LET e == LettersEnd(str, p + 1) IN
         IF e > p + 1 /\ e < Len(str) /\ At(str, e) = "$" THEN Slice(str, p, e + 1)
         ELSE <<>>

\* the offset after the first closer of the literal that opens at p, or 0
DollarCloserEnd(str, p) ==
    LET op == DollarOpener(str, p)
        e == IF op = <<>> THEN -1 ELSE IndexFrom(str, p + Len(op), op)
    IN  IF e = -1 THEN 0 ELSE p + Len(op) + e + Len(op)

\* a "$" at offset p of str is followed by "$" or by a letter
DollarQuoteStarts(str, p) ==
    /\ p + 1 < Len(str)
    /\ At(str, p + 1) = "$" \/ IsLetter(DecodeRune(str, p + 1).r)

\* what C36 says of the step that Dollar takes from a "$" at tokenStart:
\* to is the closer's end, or 0 when the "$" is to be given up
DollarStepTo(to) ==
    /\ pc' = "BaseState"
    /\ tokens' # <<>>
    /\ IF to > 0
       THEN /\ i' = to
            /\ tokens'[Len(tokens')].Type = Literal
            /\ Len(tokens'[Len(tokens')].Text) >= to - tokenStart
            /\ String(tokens') = Slice(s, 0, to)
       ELSE /\ i' = tokenStart + 1
            /\ tokens'[Len(tokens')].Type = Punctuation
            /\ String(tokens') = Slice(s, 0, tokenStart + 1)
            /\ (tokens = <<>> \/ tokens[Len(tokens)].Type # Punctuation) =>
                   tokens'[Len(tokens')].Text = <<"$">>

\* C36: with NoticeDollarQuotes, from a "$" that "$" or a letter follows,
\* Dollar emits a Literal that ends at the end of the first closer when there
\* is one, and otherwise the "$" alone as Punctuation, and goes on from the
\* byte after it.
DollarClosesOrBacktracks ==
    [][(pc = "Dollar" /\ config.NoticeDollarQuotes /\ DollarQuoteStarts(s, tokenStart)) =>
           DollarStepTo(DollarCloserEnd(s, tokenStart))]_vars

\* the same of the steps in which the letters after the "$" end before stop
DollarClosesOrBacktracksBeforeStop ==
    [][(/\ pc = "Dollar" /\ config.NoticeDollarQuotes /\ DollarQuoteStarts(s, tokenStart)
        /\ LettersEnd(s, tokenStart + 1) < stop) =>
           DollarStepTo(DollarCloserEnd(s, tokenStart))]_vars

\* a "$" was given up and a Literal was closed by the first of two closers
DollarGivenUpAndClosed ==
    /\ pc = "return"
    /\ \E k \in 1..Len(tokens) : tokens[k] = Token(Punctuation, <<"$">>)
    /\ \E k \in 1..Len(tokens) :
           tokens[k] = Token(Literal, <<"$", "a", "$", "$", "a", "$">>)

-----------------------------------------------------------------------------
(* Properties of deliminated literals, stated over the steps of SpecScan *)

\* the offset of the delimiter of the q'..' literal that starts at offset p of
\* str: the byte after its quote
DelimiterAt(str, p) == p + IndexFrom(str, p, <<"'">>) + 1

\* the bytes that close a literal opened by the bytes d
ClosingBytes(d) ==
    CASE d = <<"(">> -> <<")">>
      [] d = <<"<">> -> <<">">>
      [] d = <<"[">> -> <<"]">>
      [] d = <<"{">> -> <<"}">>
      [] OTHER -> d

\* the offset after the first closer that a quote follows, in the literal of
\* str whose delimiter is at offset a; 0 when there is none
DeliminatedEnd(str, a) ==
    LET w == DecodeRune(str, a).w
        closing == ClosingBytes(Slice(str, a, a + w)) \o <<"'">>
        e == IndexFrom(str, a + w, closing)
    IN  IF e = -1 THEN 0 ELSE a + w + e + Len(closing)

\* what C37 says of the step that scans the body of a deliminated literal:
\* it ends at to, or at the end of the input when to is 0
DeliminatedStepTo(to) ==
    /\ tokens' # <<>>
    /\ tokens'[Len(tokens')].Type = Literal
    /\ IF to > 0
       THEN i' = to /\ pc' = "BaseState" /\ String(tokens') = Slice(s, 0, to)
       ELSE i' = Len(s) /\ pc' = "Done" /\ String(tokens') = s

\* C37: the body of a deliminated literal ends at the first closer that a
\* single quote follows, the closer being ")", ">", "]" or "}" for the
\* openers "(", "<", "[" and "{" and the opener itself otherwise, whether the
\* delimiter is a byte or a rune of several bytes; with no such closer the
\* literal runs to the end of the input.
DeliminatedClosesAtQuote ==
    [][(pc \in {"DeliminatedStringCharacter", "DeliminatedStringRune"}) =>
           DeliminatedStepTo(DeliminatedEnd(s, DelimiterAt(s, tokenStart)))]_vars

\* the same of the literals whose delimiter is one byte
DeliminatedByteClosesAtQuote ==
    [][(pc = "DeliminatedStringCharacter") =>
           DeliminatedStepTo(DeliminatedEnd(s, DelimiterAt(s, tokenStart)))]_vars

\* a literal opened by "[" went past a "]" that no quote follows
BracketLiteralPastCloser ==
    /\ pc = "return"
    /\ tokens = <<Token(Literal, <<"q", "'", "[", "]", "1", "]", "'">>)>>

-----------------------------------------------------------------------------
(* Properties of punctuation kept apart, stated over SpecScan *)

\* t is one character: one byte, or the bytes of one rune
OneCharacter(t) == Len(t) >= 1 /\ Len(t) = DecodeRune(t, 0).w

\* t is two or more ":" and nothing else
ColonRun(t) == Len(t) >= 2 /\ \A j \in 1..Len(t) : t[j] = ":"

\* C38: with SeparatePunctuation set, every Punctuation token is one
\* character, also when NoticeColonWord is set and s has "::".
PunctuationApart ==
    config.SeparatePunctuation =>
        \A k \in 1..Len(tokens) :
            tokens[k].Type = Punctuation => OneCharacter(tokens[k].Text)

\* the same, but for the runs of ":" that ColonWordStart emits as one token
PunctuationApartButColons ==
    config.SeparatePunctuation =>
        \A k \in 1..Len(tokens) :
            tokens[k].Type = Punctuation =>
                \/ OneCharacter(tokens[k].Text)
                \/ config.NoticeColonWord /\ ColonRun(tokens[k].Text)

\* four punctuation characters side by side, a rune of two bytes among
\* them, made four tokens
FourPunctuationTokens ==
    /\ pc = "return"
    /\ config.SeparatePunctuation
    /\ Len(tokens) = 4
    /\ \A k \in 1..4 : tokens[k].Type = Punctuation
    /\ \E k \in 1..4 : Len(tokens[k].Text) = 2

-----------------------------------------------------------------------------
(* Properties of the transforms, stated over SpecOps, where tokens is what
   Tokenize returned and ret[k] is what the k-th call returned *)

\* C3: on the tokens Tokenize returns under the MySQL configuration, Strip,
\* CmdSplitUnstripped and CmdSplit, and Join of either split result, complete
\* without a fault.
TransformsNeverFault ==
    \A k \in 1..Len(call) :
        \/ k = 1 /\ call[1] \in {"Strip", "CmdSplitUnstripped", "CmdSplit"}
        \/ k = 2 /\ call[2] = "Join" /\ call[1] \in {"CmdSplitUnstripped", "CmdSplit"}
        => ~ret[k].fault

\* C6: when Strip(ts) is not empty, Unstrip(Strip(ts)) renders the text of ts.
UnstripRestoresText ==
    (call = <<"Strip", "Unstrip">> /\ Len(ret[1].val) > 0) =>
        String(ret[2].val) = String(tokens)

\* Strip removed a comment and more from a sequence it did not empty, and
\* Unstrip was applied to what it kept
UnstrippedAfterRemoval ==
    /\ call = <<"Strip", "Unstrip">>
    /\ Len(ret[1].val) > 0
    /\ Len(ret[1].val) + 2 <= Len(tokens)
    /\ \E k \in 1..Len(tokens) : tokens[k].Type = Comment

\* the delimiter in force at the end of ts is not ";": the last DELIMITER
\* statement of ts names another one
CustomDelimiter(ts) ==
    LET ds == {k \in 1..Len(ts) : ts[k].Type = DelimiterStatement} IN
    /\ ds # {}
    /\ ~delimiterIsSemicolon(ts[CHOOSE k \in ds : \A h \in ds : h <= k].Text)

StrippedShape(c, ts) ==
    /\ \A k \in 1..Len(c) : c[k].Type # Comment
    /\ Len(c) > 0 => c[1].Type \notin {Comment, Whitespace, Delimiter}
    /\ Len(c) > 0 => c[Len(c)].Type \notin {Comment, Whitespace}
    /\ (Len(c) > 0 /\ ~CustomDelimiter(ts)) => c[Len(c)].Type # Delimiter
    /\ \A k \in 1..Len(c) :
           c[k].Type = Whitespace =>
               \/ c[k].Text = <<" ">>
               \/ c[k].Text = <<"\n">> /\ k < Len(c) /\ c[k + 1].Type = DelimiterStatement
    /\ \A k \in 1..(Len(c) - 1) : ~(c[k].Type = Whitespace /\ c[k + 1].Type = Whitespace)

\* C7: the result of Strip has no Comment, does not begin with a Comment,
\* Whitespace or Delimiter, does not end with a Comment or Whitespace, nor
\* with a Delimiter unless a custom delimiter is in force; each Whitespace in
\* it is " ", or "\n" directly before a DelimiterStatement, and no two
\* Whitespace tokens are adjacent.
StripResultShape ==
    (Len(call) >= 1 /\ call[1] = "Strip" /\ ~ret[1].fault) =>
        StrippedShape(ret[1].val, tokens)

\* Strip was given a comment and white space other than " ", and kept a
\* Whitespace it had to normalise
StrippedWhitespace ==
    /\ call = <<"Strip">>
    /\ ~ret[1].fault
    /\ \E k \in 1..Len(tokens) : tokens[k].Type = Comment
    /\ \E k \in 1..Len(tokens) : tokens[k].Type = Whitespace /\ tokens[k].Text # <<" ">>
    /\ \E k \in 1..Len(ret[1].val) :
           ret[1].val[k].Type = Whitespace /\ ret[1].val[k].Strip # <<>>

\* the (kind, text) pairs of a sequence
Content(ts) == [k \in 1..Len(ts) |-> <<ts[k].Type, ts[k].Text>>]

\* C8: Strip is idempotent on content: the (kind, text) pairs of
\* Strip(Strip(ts)) are those of Strip(ts).
StripIdempotent ==
    (call = <<"Strip", "Strip">> /\ ~ret[2].fault) =>
        Content(ret[2].val) = Content(ret[1].val)

\* Strip was applied again to a result in which it had kept a Whitespace and
\* from which it had removed tokens
StrippedTwice ==
    /\ call = <<"Strip", "Strip">>
    /\ ~ret[2].fault
    /\ Len(ret[1].val) < Len(tokens)
    /\ \E k \in 1..Len(ret[1].val) : ret[1].val[k].Type = Whitespace

\* ts has no DELIMITER statement
NoDirective(ts) == \A k \in 1..Len(ts) : ts[k].Type # DelimiterStatement

\* ts has no empty command: no Delimiter comes first or directly after another
NoEmptyCommand(ts) ==
    \A k \in 1..Len(ts) : ts[k].Type = Delimiter => (k > 1 /\ ts[k - 1].Type # Delimiter)

\* the texts, in order, of the tokens of ts other than Delimiter and
\* DelimiterStatement tokens
RECURSIVE CommandTexts(_)
CommandTexts(ts) ==
    IF Len(ts) = 0 THEN <<>>
    ELSE (IF Head(ts).Type \in {Delimiter, DelimiterStatement} THEN <<>> ELSE <<Head(ts).Text>>)
         \o CommandTexts(Tail(ts))

\* C9 as the specification states it: with no DELIMITER directive in ts,
\* Join(CmdSplitUnstripped(ts)) renders the text of ts.
JoinRendersText ==
    (call = <<"CmdSplitUnstripped", "Join">> /\ NoDirective(tokens)) =>
        String(ret[2].val) = String(tokens)

\* C9: Join(CmdSplitUnstripped(ts)) keeps, in order, the text of every token
\* of ts that is neither a Delimiter nor a DelimiterStatement; when ts has no
\* DELIMITER directive and no empty command (no Delimiter first or directly
\* after another Delimiter) it renders the text of ts.
JoinKeepsCommands ==
    call = <<"CmdSplitUnstripped", "Join">> =>
        /\ CommandTexts(ret[2].val) = CommandTexts(tokens)
        /\ (NoDirective(tokens) /\ NoEmptyCommand(tokens)) =>
               String(ret[2].val) = String(tokens)

\* Join put back the delimiter between two commands or more of a sequence
\* with no directive and no empty command
JoinedCommands ==
    /\ call = <<"CmdSplitUnstripped", "Join">>
    /\ NoDirective(tokens)
    /\ NoEmptyCommand(tokens)
    /\ Len(ret[1].val) >= 2
    /\ \E k \in 1..Len(ret[2].val) : ret[2].val[k].Type = Delimiter

\* C10: CmdSplitUnstripped(Join(CmdSplitUnstripped(ts))) has as many commands
\* as CmdSplitUnstripped(ts).
ResplitSameCount ==
    (call = <<"CmdSplitUnstripped", "Join", "CmdSplitUnstripped">> /\ ~ret[3].fault) =>
        Len(ret[3].val) = Len(ret[1].val)

-----------------------------------------------------------------------------
(* The calls of SpecOps once more, on the heap *)

\* the call name on m.val in the heap m.h; val is a slice or a list of slices
MemCall(name, m) ==
    CASE name = "Strip" ->
           LET x == StripAt(m.h, m.val) IN [h |-> x.h, val |-> x.sl, fault |-> x.fault]
      [] name = "Unstrip" ->
           LET x == UnstripAt(m.h, m.val) IN [h |-> x.h, val |-> x.sl, fault |-> x.fault]
      [] name = "CmdSplitUnstripped" ->
           LET x == CmdSplitUnstrippedAt(m.h, m.val) IN [h |-> x.h, val |-> x.tl, fault |-> x.fault]
      [] name = "CmdSplit" ->
           LET x == CmdSplitAt(m.h, m.val) IN [h |-> x.h, val |-> x.tl, fault |-> x.fault]
      [] name = "Join" ->
           LET x == JoinAt(m.h, m.val) IN [h |-> x.h, val |-> x.sl, fault |-> x.fault]

\* the heap and the result after the first n calls
RECURSIVE MemAfter(_)
MemAfter(n) ==
    IF n = 0
    THEN LET m == TokenizeAt(s, tokens) IN [h |-> m.h, val |-> m.sl, fault |-> FALSE]
    ELSE MemCall(call[n], MemAfter(n - 1))

\* the Tokens or the TokensList that val is in the heap h
ValueAt(h, val, isList) ==
    IF isList THEN [k \in 1..Len(val) |-> TokensAt(h, val[k])] ELSE TokensAt(h, val)

\* C11: Strip, Unstrip, CmdSplitUnstripped, CmdSplit and Join leave their
\* receiver unchanged: after the call every token of the sequence, or of every
\* command of the list, it was made on has the Type, Text, Strip and Split it
\* had before.
ReceiverUnchanged ==
    (pc = "return" /\ Len(call) > 0) =>
        LET n == Len(call)
            before == MemAfter(n - 1)
            after == MemCall(call[n], before)
            isList == call[n] = "Join"
        IN  ValueAt(after.h, before.val, isList) = ValueAt(before.h, before.val, isList)

\* a call has returned a command that is a slice of its receiver's array, or
\* a token whose Strip is one
ResultSharesReceiver ==
    /\ pc = "return"
    /\ Len(call) = 1
    /\ LET m == MemAfter(1) IN
       /\ ~m.fault
       /\ \/ call[1] = "CmdSplitUnstripped" /\ Len(m.val) >= 2
             /\ \A k \in 1..Len(m.val) : m.val[k].a = 2
          \/ call[1] = "Strip" /\ m.val.len >= 2
             /\ \E k \in 0..(m.val.len - 1) : Cell(m.h, m.val, k).Strip.a = 2

-----------------------------------------------------------------------------
(* Copy on the result of up to MaxCopyCalls calls.  SpecCopy makes the      *)
(* calls of SpecOps on the inputs of OpsFamily and then the copy, after     *)
(* which nothing more is called.                                            *)

\* the calls made before Copy
MaxCopyCalls == 2

CopyStrip == Len(call) < MaxCopyCalls /\ OpStrip

CopyUnstrip == Len(call) < MaxCopyCalls /\ OpUnstrip

CopyCmdSplitUnstripped == Len(call) < MaxCopyCalls /\ OpCmdSplitUnstripped

CopyCmdSplit == Len(call) < MaxCopyCalls /\ OpCmdSplit

CopyJoin == Len(call) < MaxCopyCalls /\ OpJoin

\* func copySlice, on the value of a slice
copySlice(sl) == [k \in 1..Len(sl) |-> sl[k]]

\* func (t Token) Copy() Token
TokenCopy(t) == [t EXCEPT !.Strip = IF t.Strip = <<>> THEN <<>> ELSE <<copySlice(t.Strip[1])>>]

\* func (ts Tokens) Copy() Tokens
TokensCopy(ts) == [k \in 1..Len(ts) |-> TokenCopy(ts[k])]

\* func (tl TokensList) Copy() TokensList
TokensListCopy(tl) == [k \in 1..Len(tl) |-> TokensCopy(tl[k])]

\* c := Last.Copy()
OpCopy ==
    /\ pc = "return"
    /\ ~Last.fault
    /\ ret' = Append(ret, Returns(IF LastIsList THEN TokensListCopy(Last.val)
                                    ELSE TokensCopy(Last.val)))
    /\ call' = Append(call, "Copy")
    /\ pc' = "copied"
    /\ UNCHANGED <<s, config, i, stop, tokenStart, tokens, firstDollarEnd, runeDelim,
                   charDelim, endDelimiterWord, delimiterBuffer, delimiter>>

NextCopy ==
    \/ OpTokenize \/ CopyStrip \/ CopyUnstrip \/ CopyCmdSplitUnstripped \/ CopyCmdSplit
    \/ CopyJoin \/ OpCopy

\* the inputs of OpsFamily
InitCopy == \E str \in Inputs(OpsFamily, MaxOpsFrags) : Called(str, OpsFamily.config)

SpecCopy == InitCopy /\ [][NextCopy]_vars

-----------------------------------------------------------------------------
(* Properties of Copy, stated over SpecCopy *)

\* Copy of val, a slice or a list of slices, in the heap h
CopyOf(h, val, isList) ==
    IF isList
    THEN LET c == TokensListCopyAt(h, val) IN [h |-> c.h, val |-> c.tl]
    ELSE LET c == TokensCopyAt(h, val) IN [h |-> c.h, val |-> c.sl]

\* the token a caller stores through the copy
MarkedCell == [Type |-> Other, Text |-> <<"x">>, Split |-> NilPtr, Strip |-> NilSlice]

\* the cells of val, a slice or a list of slices
CellsOf(h, val, isList) ==
    IF isList
    THEN UNION {{Cell(h, val[n], k) : k \in 0..(val[n].len - 1)} : n \in 1..Len(val)}
    ELSE {Cell(h, val, k) : k \in 0..(val.len - 1)}

\* the heaps after c[k].Strip[j] = MarkedCell, for every token c[k] of cells
\* and every index j of its Strip
StripWrites(h, cells) ==
    UNION {{Store(h, x.Strip, j, MarkedCell) : j \in 0..(x.Strip.len - 1)} :
               x \in {y \in cells : y.Strip.a # 0}}

\* the heaps after *c[k].Split = MarkedCell, for every token c[k] of cells
\* that has a Split
SplitWrites(h, cells) ==
    {[h EXCEPT ![x.Split.a][x.Split.k + 1] = MarkedCell] : x \in {y \in cells : y.Split.a # 0}}

\* what Copy was called on, and the copy, in the heap after the copy was made
Copied ==
    LET n == Len(call) - 1
        isList == n > 0 /\ call[n] \in {"CmdSplitUnstripped", "CmdSplit"}
        m == MemAfter(n)
        c == CopyOf(m.h, m.val, isList)
    IN  [h |-> c.h, original |-> m.val, copy |-> c.val, isList |-> isList]

\* C25: the value Copy returns owns its annotation fields: storing a token
\* into the Strip of a token of the copy, or into the token that the Split of
\* a token of the copy points to, changes no token reachable from the value
\* Copy was called on.
CopyOwnsAnnotations ==
    pc = "copied" =>
        LET c == Copied
            cells == CellsOf(c.h, c.copy, c.isList)
        IN  \A h2 \in StripWrites(c.h, cells) \cup SplitWrites(c.h, cells) :
                ValueAt(h2, c.original, c.isList) = ValueAt(c.h, c.original, c.isList)

\* storing into the Strip of a token of the copy changes nothing reachable
\* from the original
CopyOwnsStrip ==
    pc = "copied" =>
        LET c == Copied
        IN  \A h2 \in StripWrites(c.h, CellsOf(c.h, c.copy, c.isList)) :
                ValueAt(h2, c.original, c.isList) = ValueAt(c.h, c.original, c.isList)

-----------------------------------------------------------------------------
(* Properties of the commands of CmdSplit, stated over SpecOps *)

\* CmdSplit of the MySQL tokens of the rendering of the command c
Resplit(c) == CmdSplit(Tokenize(String(c), MySQLConfig).tokens)

\* C12: every command returned by CmdSplit is self-contained: tokenizing its
\* rendering under the MySQL configuration and calling CmdSplit again yields
\* exactly one command, with the same rendering.
CommandsSelfContained ==
    (pc = "return" /\ call = <<"CmdSplit">> /\ ~ret[1].fault) =>
        \A k \in 1..Len(ret[1].val) :
            LET r == Resplit(ret[1].val[k])
            IN  /\ ~r.fault
                /\ Len(r.val) = 1
                /\ String(r.val[1]) = String(ret[1].val[k])

\* the input of the test case delimiter_set_at_end
SetAtEndInput ==
    DelimiterWord \o <<" ", "$", "$", "\n", "A", "$", "$", "B", "$", "$", "C", "$", "$", "\n">>
        \o DelimiterWord \o <<" ", ";", "\n">>

\* the command x wrapped in DELIMITER $$ and DELIMITER ;
WrappedCommand(x) ==
    DelimiterWord \o <<" ", "$", "$", "\n", x, "$", "$", "\n">>
        \o DelimiterWord \o <<" ", ";", "\n">>

\* C13: for "DELIMITER $$\nA$$B$$C$$\nDELIMITER ;\n" CmdSplitUnstripped and
\* CmdSplit return three commands, A, B and C, each wrapped in its own
\* DELIMITER $$ and DELIMITER ; pair.
SetAtEndSplitsInThree ==
    (pc = "return" /\ s = SetAtEndInput /\ Len(call) = 1
        /\ call[1] \in {"CmdSplitUnstripped", "CmdSplit"}) =>
        /\ ~ret[1].fault
        /\ [k \in 1..Len(ret[1].val) |-> String(ret[1].val[k])]
               = <<WrappedCommand("A"), WrappedCommand("B"), WrappedCommand("C")>>

\* C14: the commands of CmdSplit(ts) are the results of Strip on the commands
\* of CmdSplitUnstripped(ts), in order, without the empty ones; none of them is
\* empty or made of Whitespace and Comment tokens only.
CmdSplitStripsEach ==
    (pc = "return" /\ call = <<"CmdSplit">> /\ ~ret[1].fault) =>
        LET r == CmdSplitUnstripped(tokens).val
            st == [k \in 1..Len(r) |-> Strip(r[k]).val]
        IN  /\ ret[1].val = SelectSeq(st, LAMBDA c : c # <<>>)
            /\ \A k \in 1..Len(ret[1].val) :
                   /\ ret[1].val[k] # <<>>
                   /\ \E j \in 1..Len(ret[1].val[k]) :
                          ret[1].val[k][j].Type \notin {Whitespace, Comment}

\* CmdSplit returned two commands or more, dropped a command of
\* CmdSplitUnstripped that Strip emptied, and returned one that Strip changed
SplitStrippedAndDropped ==
    /\ pc = "return"
    /\ call = <<"CmdSplit">>
    /\ ~ret[1].fault
    /\ Len(ret[1].val) >= 2
    /\ LET r == CmdSplitUnstripped(tokens).val IN
       /\ \E k \in 1..Len(r) : r[k] # <<>> /\ Strip(r[k]).val = <<>>
       /\ \E k \in 1..Len(r) : Strip(r[k]).val # <<>> /\ Strip(r[k]).val # r[k]

-----------------------------------------------------------------------------
(* Properties of Join on the commands of a split, stated over SpecOps *)

\* a directive that wrapIfNeeded has made: its Split is the Empty sentinel
IsWrapper(tk) == tk.Type = DelimiterStatement /\ tk.Split = <<empty>>

\* the tokens of the command ts that are neither Empty nor a wrapper, without
\* their Split; with closer, a wrapper that is the last token of ts is kept
RECURSIVE KeptTokens(_, _, _)
KeptTokens(ts, closer, j) ==
    IF j > Len(ts) THEN <<>>
    ELSE IF ts[j].Type = Empty \/ (IsWrapper(ts[j]) /\ ~(closer /\ j = Len(ts)))
    THEN KeptTokens(ts, closer, j + 1)
    ELSE <<[ts[j] EXCEPT !.Split = <<>>]>> \o KeptTokens(ts, closer, j + 1)

\* the Delimiter that the last token of the command ts carries as Split
Elided(ts) ==
    LET end == ts[Len(ts)] IN
    IF end.Split # <<>> /\ end.Split[1].Type # Empty
    THEN <<[end.Split[1] EXCEPT !.Split = <<>>]>>
    ELSE <<>>

\* the commands of tl from number k on, each without its wrappers and
\* followed by its elided Delimiter; with closer, the last command that is
\* not white space only keeps the wrapper that ends it
RECURSIVE Rejoined(_, _, _)
Rejoined(tl, closer, k) ==
    IF k > Len(tl) THEN <<>>
    ELSE KeptTokens(tl[k], closer /\ k - 1 = indexLastReal(tl), 1)
           \o Elided(tl[k]) \o Rejoined(tl, closer, k + 1)

SplitThenJoin ==
    /\ pc = "return"
    /\ Len(call) = 2
    /\ call[1] \in {"CmdSplit", "CmdSplitUnstripped"}
    /\ call[2] = "Join"
    /\ ~ret[2].fault

NoEmptyNoSplit(ts) == \A k \in 1..Len(ts) : ts[k].Type # Empty /\ ts[k].Split = <<>>

\* C16 as stated: Join on the commands of CmdSplit or CmdSplitUnstripped
\* returns no Empty token, no token with a Split and no wrapper directive, and
\* after each command the Delimiter that its last token carries as Split.
JoinDropsWrappers ==
    SplitThenJoin =>
        /\ NoEmptyNoSplit(ret[2].val)
        /\ ret[2].val = Rejoined(FilterEmptySlices(ret[1].val), FALSE, 1)

\* C16: Join on the commands of CmdSplit or CmdSplitUnstripped returns no
\* Empty token, no token with a Split, and no wrapper directive other than
\* the closing directive that ends the last command that is not white space
\* only; after each command comes the Delimiter that its last token carries
\* as Split.
JoinDropsWrappersButLast ==
    SplitThenJoin =>
        /\ NoEmptyNoSplit(ret[2].val)
        /\ ret[2].val = Rejoined(FilterEmptySlices(ret[1].val), TRUE, 1)

\* Join has dropped the wrappers of the first command and of the start of the
\* last, and kept the closing directive of the last
JoinedWrappedCommands ==
    /\ SplitThenJoin
    /\ LET tl == FilterEmptySlices(ret[1].val) IN
       /\ Len(tl) >= 2
       /\ IsWrapper(tl[1][Len(tl[1])])
       /\ \E k \in 2..Len(tl) :
              /\ k - 1 = indexLastReal(tl)
              /\ IsWrapper(tl[k][1])
              /\ IsWrapper(tl[k][Len(tl[k])])
       /\ ret[2].val # <<>>
       /\ ret[2].val[Len(ret[2].val)].Type = DelimiterStatement

-----------------------------------------------------------------------------
(* Properties of commands of white space and comments, stated over SpecOps *)

\* the kind and the text of each token of ts, without Split and Strip
Plain(ts) == [k \in 1..Len(ts) |-> [Type |-> ts[k].Type, Text |-> ts[k].Text]]

\* the tokens of ts from index k (from 1) up to the next Delimiter or the end
RECURSIVE SpanFrom(_, _)
SpanFrom(ts, k) ==
    IF k > Len(ts) \/ ts[k].Type = Delimiter THEN <<>>
    ELSE <<ts[k]>> \o SpanFrom(ts, k + 1)

\* the spans of ts from index k: what lies before the first Delimiter,
\* between two Delimiters, and after the last
RECURSIVE SpansFrom(_, _)
SpansFrom(ts, k) ==
    LET sp == SpanFrom(ts, k)
        n == k + Len(sp)
    IN  IF n > Len(ts) THEN <<sp>> ELSE <<sp>> \o SpansFrom(ts, n + 1)

\* a span of one token or more, all of them Whitespace or Comment
BlankSpan(sp) ==
    Len(sp) > 0 /\ \A k \in 1..Len(sp) : sp[k].Type \in {Whitespace, Comment}

\* the spans of ts that are blank, in source order
BlankSpans(ts) == SelectSeq(SpansFrom(Plain(ts), 1), BlankSpan)

\* the commands of tl that are blank, in order
BlankCommands(tl) == SelectSeq([k \in 1..Len(tl) |-> Plain(tl[k])], BlankSpan)

\* a is b with some of its elements left out
RECURSIVE IsSubseq(_, _)
IsSubseq(a, b) ==
    IF Len(a) = 0 THEN TRUE
    ELSE IF Len(b) = 0 THEN FALSE
    ELSE IF Head(a) = Head(b) THEN IsSubseq(Tail(a), Tail(b))
    ELSE IsSubseq(a, Tail(b))

\* C26: CmdSplitUnstripped returns every blank span of ts as a
\* command of its own, in source order, and Join does not bring these
\* commands back: its result has no blank span.
BlankSpansNotRejoined ==
    (call = <<"CmdSplitUnstripped", "Join">> /\ ~ret[2].fault) =>
        /\ IsSubseq(BlankSpans(tokens), BlankCommands(ret[1].val))
        /\ BlankSpans(ret[2].val) = <<>>

\* What Join does with them: CmdSplitUnstripped returns every blank span of
\* ts as a command of its own, in source order, and Join keeps these
\* commands: their tokens are, in order, tokens of its result.
BlankSpansRejoined ==
    (call = <<"CmdSplitUnstripped", "Join">> /\ ~ret[2].fault) =>
        /\ IsSubseq(BlankSpans(tokens), BlankCommands(ret[1].val))
        /\ IsSubseq(Flatten(BlankCommands(ret[1].val)), Plain(ret[2].val))

\* CmdSplitUnstripped has returned a blank command and a command that is
\* not blank, and Join a sequence with a blank span
RejoinedBlankCommands ==
    /\ call = <<"CmdSplitUnstripped", "Join">>
    /\ ~ret[2].fault
    /\ BlankSpans(tokens) # <<>>
    /\ \E k \in 1..Len(ret[1].val) : BlankSpan(Plain(ret[1].val[k]))
    /\ \E k \in 1..Len(ret[1].val) : Len(ret[1].val[k]) > 0 /\ ~BlankSpan(Plain(ret[1].val[k]))
    /\ BlankSpans(ret[2].val) # <<>>

\* "SELECT 1" and "SELECT 2"
TwoSelects ==
    << <<"S", "E", "L", "E", "C", "T", " ", "1">>, <<"S", "E", "L", "E", "C", "T", " ", "2">> >>

\* the spans of ts that have a token
FullSpans(ts) == SelectSeq(SpansFrom(Plain(ts), 1), LAMBDA sp : Len(sp) > 0)

-----------------------------------------------------------------------------
(* Properties of Join on any TokensList, stated over SpecJoin *)

\* C15: Join does not fail on any TokensList; its result is that of Join on
\* the list without its empty commands, and is empty when every command of
\* the list is empty.
JoinAcceptsAnyList ==
    call = <<"TokensList", "Join">> =>
        /\ ~ret[2].fault
        /\ ret[2] = Join(FilterEmptySlices(ret[1].val))
        /\ (\A k \in 1..Len(ret[1].val) : ret[1].val[k] = <<>>) => ret[2].val = <<>>

\* Join was called on a list with an empty command and a command that is one
\* token with a Split, and returned tokens
JoinedPaddedList ==
    /\ call = <<"TokensList", "Join">>
    /\ \E k \in 1..Len(ret[1].val) : ret[1].val[k] = <<>>
    /\ \E k \in 1..Len(ret[1].val) :
           Len(ret[1].val[k]) = 1 /\ ret[1].val[k][1].Split # <<>>
    /\ ~ret[2].fault
    /\ ret[2].val # <<>>

-----------------------------------------------------------------------------
(* Properties of the line break that Strip keeps before a directive, stated *)
(* over SpecOps                                                             *)

\* what call number j was made on
ArgOf(j) == IF j = 1 THEN tokens ELSE ret[j - 1].val

\* str ends with the byte c
EndsWithByte(str, c) == Len(str) > 0 /\ str[Len(str)] = c

\* in c, a result of Strip(ts), token number k is a DelimiterStatement that
\* is not the first token and whose text does not begin with "\n"
DirectiveInside(c, k) ==
    /\ k \in 2..Len(c)
    /\ c[k].Type = DelimiterStatement
    /\ ~HasPrefixAt(c[k].Text, 0, <<"\n">>)

\* the token w that Strip(ts) left before a directive: its text ends with
\* "\n"; a Whitespace is "\n" alone and has a Strip, which is empty when
\* Strip made the token itself and otherwise is tokens of ts, side by side
\* and ending with a Whitespace, that Unstrip puts back in u
LineBreakBefore(w, ts, u) ==
    /\ EndsWithByte(w.Text, "\n")
    /\ w.Type = Whitespace =>
           /\ w.Text = <<"\n">>
           /\ w.Strip # <<>>
           /\ LET xs == w.Strip[1] IN
              xs # <<>> =>
                  /\ xs[Len(xs)].Type = Whitespace
                  /\ HasSub(ts, xs)
                  /\ HasSub(u, xs)

\* C39: in a result of Strip, a DelimiterStatement that is not the first
\* token and does not begin with "\n" comes directly after a token whose text
\* ends with "\n"; when that token is a Whitespace it is "\n" alone and its
\* Strip holds the tokens it stands for, which Unstrip puts back.
StripKeepsLineBreak ==
    \A j \in 1..Len(call) :
        (call[j] = "Strip" /\ ~ret[j].fault) =>
            \A k \in 1..Len(ret[j].val) :
                DirectiveInside(ret[j].val, k) =>
                    LineBreakBefore(ret[j].val[k - 1], ArgOf(j), Unstrip(ret[j].val))

\* Strip rewrote a Whitespace that was not "\n" alone to "\n" before a
\* directive
LineBreakRewritten ==
    /\ call # <<>> /\ call[1] = "Strip" /\ ~ret[1].fault
    /\ \E k \in 1..Len(ret[1].val) :
           /\ DirectiveInside(ret[1].val, k)
           /\ ret[1].val[k - 1].Type = Whitespace
           /\ ret[1].val[k - 1].Strip # <<>>
           /\ ret[1].val[k - 1].Strip[1] # <<>>
           /\ String(ret[1].val[k - 1].Strip[1]) # <<"\n">>

\* Strip made a "\n" of its own before a directive
LineBreakMade ==
    /\ call # <<>> /\ call[1] = "Strip" /\ ~ret[1].fault
    /\ \E k \in 1..Len(ret[1].val) :
           /\ DirectiveInside(ret[1].val, k)
           /\ ret[1].val[k - 1].Strip = << <<>> >>


-----------------------------------------------------------------------------
(* Properties of the tokens that CmdSplitUnstripped hands on, stated over  *)
(* SpecOps                                                                  *)

\* the tokens of the commands of tl, in order, without the directives that
\* wrapIfNeeded has made
NonSynthetic(tl) == SelectSeq(Flatten(tl), LAMBDA tk : ~IsWrapper(tk))

\* tk is the token orig of ts, as it is or with a Split that the split gave it
SameToken(tk, orig) ==
    \/ tk = orig
    \/ tk.Split # <<>> /\ [tk EXCEPT !.Split = orig.Split] = orig

\* the tokens of command number k of tl that wrapIfNeeded has not made; none
\* when tl has no such command
CommandAt(tl, k) ==
    IF k <= Len(tl) THEN SelectSeq(tl[k], LAMBDA tk : ~IsWrapper(tk)) ELSE <<>>

\* the command cmd has no contents: white space, comments and directives
\* only, or no token at all
WithoutContents(cmd) ==
    \A h \in 1..Len(cmd) : cmd[h].Type \in {Whitespace, Comment, Empty, DelimiterStatement}

\* the commands of tl from token h of command k are ts from index a, in
\* order, but for a Delimiter of ts left out where a command ends: one that
\* is the Split of the last token of that command, or that ended a command
\* without contents
RECURSIVE Conserved(_, _, _, _, _)
Conserved(ts, tl, a, k, h) ==
    LET cmd == CommandAt(tl, k) IN
    IF h <= Len(cmd)
    THEN /\ a <= Len(ts)
         /\ SameToken(cmd[h], ts[a])
         /\ Conserved(ts, tl, a + 1, k, h + 1)
    ELSE IF k > Len(tl) THEN a > Len(ts)
    ELSE \/ Conserved(ts, tl, a, k + 1, 1)
         \/ /\ a <= Len(ts)
            /\ ts[a].Type = Delimiter
            /\ \/ cmd # <<>> /\ cmd[Len(cmd)].Split = <<ts[a]>>
               \/ WithoutContents(cmd)
            /\ Conserved(ts, tl, a + 1, k + 1, 1)

\* C40: the tokens of the commands that CmdSplitUnstripped(ts) returns,
\* without the directives it has made, are in order the tokens of ts, each
\* token that is not a Delimiter once; a Delimiter of ts is among them, or
\* is the Split of the last token of the command it ended, or ended a
\* command without contents.
SplitConservesTokens ==
    \A j \in 1..Len(call) :
        (/\ call[j] = "CmdSplitUnstripped"
         /\ ~ret[j].fault
         /\ \A k \in 1..Len(ArgOf(j)) : ~IsWrapper(ArgOf(j)[k])) =>
            Conserved(ArgOf(j), ret[j].val, 1, 1, 1)

\* a split with a Delimiter among the tokens of a command, a Delimiter left
\* out, and a directive that wrapIfNeeded has made
SplitInlineAndLeftOut ==
    /\ call # <<>> /\ call[1] = "CmdSplitUnstripped" /\ ~ret[1].fault
    /\ \E k \in 1..Len(ret[1].val) : \E h \in 1..Len(ret[1].val[k]) :
           ret[1].val[k][h].Type = Delimiter
    /\ \E k \in 1..Len(ret[1].val) : \E h \in 1..Len(ret[1].val[k]) :
           IsWrapper(ret[1].val[k][h])
    /\ Len(NonSynthetic(ret[1].val)) < Len(tokens)

\* a split with a Delimiter kept as the Split of the token before it
SplitKeptInSplit ==
    /\ call # <<>> /\ call[1] = "CmdSplitUnstripped" /\ ~ret[1].fault
    /\ \E k \in 1..Len(ret[1].val) : \E h \in 1..Len(ret[1].val[k]) :
           /\ ret[1].val[k][h].Split # <<>>
           /\ ret[1].val[k][h].Split[1].Type = Delimiter
====
